---- MODULE Spec2Model ----
(***************************************************************************)
(* A model of bun's SELECT query engine: the statement-level hook pipeline *)
(* (hook.go), the SelectQuery builder, its renderer, Clone, and the        *)
(* terminal operations Rows/Exec/Scan/Count/Exists/ScanAndCount            *)
(* (query_select.go).                                                      *)
(*                                                                         *)
(* Queries are objects of a heap (heap[id]); a nested query (a CTE         *)
(* sub-query, a set-operation operand) is held by its id, as the Go code   *)
(* holds it by pointer.  The explicit join list is a slice over a backing  *)
(* array (joinArr[owner]); every other clause list is a value.  Rendered   *)
(* SQL is a sequence of text tokens.                                       *)
(***************************************************************************)
EXTENDS Integers, Sequences, FiniteSets, TLC

VARIABLES
    heap,       \* id -> SelectQuery
    joinArr,    \* id -> backing array of the joins slice owned by query id
    nops,       \* number of builder-level calls made so far (bounded)
    recorded,   \* ghost: id -> the first error a builder call recorded on the query
    origin,     \* ghost: id -> the query it was cloned from (0: not a clone)
    db,         \* the DB: registered query hooks, statistics counters
    op,         \* the terminal operation in progress and its arguments
    tasks,      \* task name -> the position and locals of each running task
    stmts,      \* the statements handed to the execution adapter, in order of creation
    sac         \* the locals of ScanAndCount: firstErr, count, result

vars == <<heap, joinArr, nops, recorded, origin, db, op, tasks, stmts, sac>>

buildVars == <<heap, joinArr, nops, recorded, origin>>
execVars == <<db, op, tasks, stmts, sac>>

------------------------------------------------------------------------------
(* Bounds *)
MaxOps == 3        \* builder-level calls per behaviour
MaxQueries == 4    \* query objects in the heap
MaxHooks == 2      \* registered query hooks

------------------------------------------------------------------------------
(* Values *)
NoErr == "nil"
ErrNoJoins == "bun: query has no joins"
ErrDestToMany == "When querying has-many or many-to-many relationships, you should use Model instead of the dest parameter in Scan."
ErrNilModel == "bun: Model(nil)"
ErrNoRelation == "model does not have relation"
ErrUser == "user error"

NoConn == "nil"
PinnedConn == "conn"

\* A nullable slice: Go distinguishes a nil slice from an empty one.
NilSlice == [nil |-> TRUE, elems |-> <<>>]
Slice(s) == [nil |-> FALSE, elems |-> s]

\* What the model's type answers to the select hooks: it does not implement
\* the interface, or its method returns nil or an error.
NotImplemented == "not implemented"
ErrBeforeSelect == "BeforeSelect error"
ErrAfterSelect == "AfterSelect error"
NoHooks == [BeforeSelect |-> NotImplemented, AfterSelect |-> NotImplemented]

NoModel == [nil |-> TRUE, joins |-> <<>>, hooks |-> NoHooks]
NewTableModel == [nil |-> FALSE, joins |-> <<>>, hooks |-> NoHooks]

HasOneRelation == "has-one"
BelongsToRelation == "belongs-to"
HasManyRelation == "has-many"
ManyToManyRelation == "many-to-many"
ToOne == {HasOneRelation, BelongsToRelation}

\* The relations the mapped models declare (the metadata provider's answer):
\* model -> relation name -> kind, related model, static Condition.
NoRelation == [type |-> "none", model |-> "", cond |-> <<>>]
RootModel == "User"
schemaRelation(model, name) ==
    CASE model = "User" /\ name = "Profile" ->
            [type |-> HasOneRelation, model |-> "Profile", cond |-> <<"profile.active">>]
      [] model = "User" /\ name = "Owner" ->
            [type |-> BelongsToRelation, model |-> "Owner", cond |-> <<>>]
      [] model = "User" /\ name = "Items" ->
            [type |-> HasManyRelation, model |-> "Item", cond |-> <<>>]
      [] model = "User" /\ name = "Tags" ->
            [type |-> ManyToManyRelation, model |-> "Tag", cond |-> <<>>]
      [] model = "Profile" /\ name = "Address" ->
            [type |-> BelongsToRelation, model |-> "Address", cond |-> <<>>]
      [] model = "Profile" /\ name = "Pets" ->
            [type |-> HasManyRelation, model |-> "Pet", cond |-> <<>>]
      [] model = "Item" /\ name = "Maker" ->
            [type |-> BelongsToRelation, model |-> "Maker", cond |-> <<>>]
      [] model = "Item" /\ name = "Parts" ->
            [type |-> HasManyRelation, model |-> "Part", cond |-> <<>>]
      [] OTHER -> NoRelation

\* The apply functions a caller passes to Relation: "" is no function.
NoFn == ""
ApplyFns == {"fnWhere", "fnColumn"}

EmptyQuery ==
    [ err |-> NoErr, conn |-> NoConn, tableModel |-> NoModel,
      with |-> <<>>, tables |-> NilSlice, columns |-> NilSlice, where |-> <<>>,
      use |-> NilSlice, order |-> NilSlice, limit |-> 0, offset |-> 0,
      distinctOn |-> NilSlice, joins |-> 0, group |-> NilSlice,
      having |-> NilSlice, selFor |-> "", union |-> <<>>, comment |-> "" ]

QIds == DOMAIN heap

\* append(s, x) on a nullable slice: the result is never nil.
appendTo(s, x) == Slice(Append(s.elems, x))

\* len(q.joins) and the elements of the slice.
joinsOf(ja, qr) == IF qr.joins = 0 THEN <<>> ELSE ja[qr.joins]

------------------------------------------------------------------------------
(* Builder calls, as functions of the query record *)

\* baseQuery.setErr keeps the first error.
setErr(qr, e) == IF qr.err = NoErr THEN [qr EXCEPT !.err = e] ELSE qr

addWhere(qr, w) == [qr EXCEPT !.where = Append(@, w)]
addColumn(qr, c) == [qr EXCEPT !.columns = appendTo(@, c)]
addTable(qr, t) == [qr EXCEPT !.tables = appendTo(@, t)]
setModel(qr) == [qr EXCEPT !.tableModel = NewTableModel]
setLimit(qr, n) == [qr EXCEPT !.limit = n]
setOffset(qr, n) == [qr EXCEPT !.offset = n]
addWith(qr, name, sub) == [qr EXCEPT !.with = Append(@, [name |-> name, query |-> sub])]
addUnion(qr, expr, other) ==
    [qr EXCEPT !.union = Append(@, [expr |-> expr, query |-> other])]
addUseIndex(qr, idx) == [qr EXCEPT !.use = appendTo(@, idx)]

\* The index-hint builders act on the MySQL dialect only.
UseIndex(dialect, qr, idx) == IF dialect = "mysql" THEN addUseIndex(qr, idx) ELSE qr

Distinct(qr) == [qr EXCEPT !.distinctOn = Slice(<<>>)]
DistinctOn(qr, f) == [qr EXCEPT !.distinctOn = appendTo(@, f)]
Group(qr, c) == [qr EXCEPT !.group = appendTo(@, c)]
Having(qr, f) == [qr EXCEPT !.having = appendTo(@, f)]
Order(qr, o) == [qr EXCEPT !.order = appendTo(@, o)]
For(qr, s) == [qr EXCEPT !.selFor = s]
Comment(qr, c) == [qr EXCEPT !.comment = c]

\* The user's apply function, called on the query.
callFn(fn, qr) ==
    CASE fn = "fnWhere" -> addWhere(qr, [query |-> "rel.x > 1", sep |-> " AND "])
      [] fn = "fnColumn" -> addColumn(qr, "rel.name")
      [] OTHER -> qr

------------------------------------------------------------------------------
(* Relation joins *)

NilApply == [nil |-> TRUE, fn |-> NoFn]

newJoin(rel, name) ==
    [ name |-> name, type |-> rel.type, model |-> rel.model, cond |-> rel.cond,
      apply |-> NilApply, columns |-> NilSlice, addOn |-> <<>>, joins |-> <<>> ]

indexOfJoin(joins, name) ==
    IF \E i \in 1..Len(joins) : joins[i].name = name
    THEN CHOOSE i \in 1..Len(joins) : joins[i].name = name
    ELSE 0

\* What Relation / RelationWithOpts write on the join they looked up.
NoUpdate == [setApply |-> FALSE, fn |-> NoFn, addOn |-> <<>>]

\* applyToRelation: the join's closure is rebuilt from the relation's static
\* Condition (apply1, taken from join.cond) and the one apply function (apply2).
applyToRelation(j, fn) == [j EXCEPT !.apply = [nil |-> FALSE, fn |-> fn]]

updateJoin(j, upd) ==
    LET j1 == IF upd.setApply THEN applyToRelation(j, upd.fn) ELSE j
    IN  IF Len(upd.addOn) > 0 THEN [j1 EXCEPT !.addOn = upd.addOn] ELSE j1

\* tableModel.join(name): the join at a dotted path below `model`, added when
\* it is not there yet; ok is FALSE when a name of the path is no relation.
RECURSIVE joinPath(_, _, _, _)
joinPath(model, joins, path, upd) ==
    LET name == Head(path)
        rel == schemaRelation(model, name)
        idx == indexOfJoin(joins, name)
        js == IF idx = 0 THEN Append(joins, newJoin(rel, name)) ELSE joins
        i == IF idx = 0 THEN Len(js) ELSE idx
    IN  IF rel = NoRelation THEN [ok |-> FALSE, joins |-> joins]
        ELSE IF Len(path) = 1
             THEN [ok |-> TRUE, joins |-> [js EXCEPT ![i] = updateJoin(@, upd)]]
             ELSE LET r == joinPath(rel.model, js[i].joins, Tail(path), upd)
                  IN  [ok |-> r.ok,
                       joins |-> IF r.ok THEN [js EXCEPT ![i].joins = r.joins] ELSE joins]

\* A lookup that falls back to the query as it is when the name is unknown.
relationCallLenient(qr, path, upd) ==
    IF qr.tableModel.nil THEN qr
    ELSE LET r == joinPath(RootModel, qr.tableModel.joins, path, upd)
         IN  IF ~r.ok THEN qr
             ELSE [qr EXCEPT !.tableModel.joins = r.joins]

relationCall(qr, path, upd) ==
    IF qr.tableModel.nil THEN setErr(qr, ErrNilModel)
    ELSE LET r == joinPath(RootModel, qr.tableModel.joins, path, upd)
         IN  IF ~r.ok THEN setErr(qr, ErrNoRelation)
             ELSE [qr EXCEPT !.tableModel.joins = r.joins]

\* Relation(name, apply...): applyToRelation is called with or without a function.
Relation(qr, path, fn) ==
    relationCall(qr, path, [setApply |-> TRUE, fn |-> fn, addOn |-> <<>>])

\* RelationWithOpts(name, opts): applyToRelation only when opts.Apply is set.
RelationWithOpts(qr, path, fn, addOn) ==
    relationCall(qr, path, [setApply |-> fn # NoFn, fn |-> fn, addOn |-> addOn])

\* relationJoin.applyTo(q): runs the join's closure on the query being rendered.
\* The query's columns are set aside, the closure runs (apply1 adds the static
\* conditions to q.where, apply2 is the caller's function), the columns the
\* closure selected move to the join and the query's own columns come back.
applyStatic(qr, cond) ==
    IF cond = <<>> THEN qr
    ELSE [qr EXCEPT !.where = @ \o [i \in 1..Len(cond) |-> [query |-> cond[i], sep |-> " AND "]]]

applyTo(j, qr) ==
    IF j.apply.nil THEN [q |-> qr, j |-> j]
    ELSE LET q1 == [qr EXCEPT !.columns = NilSlice]
             q2 == applyStatic(q1, j.cond)
             q3 == callFn(j.apply.fn, q2)
         IN  [q |-> [q3 EXCEPT !.columns = qr.columns],
              j |-> [j EXCEPT !.columns = q3.columns]]

\* forEachInlineRelJoin with fn = j.applyTo(q): depth-first over the to-one joins.
RECURSIVE applyInlineJoins(_, _)
applyInlineJoins(qr, joins) ==
    IF joins = <<>> THEN [q |-> qr, joins |-> <<>>]
    ELSE LET j == Head(joins)
         IN  IF j.type \in ToOne
             THEN LET a == applyTo(j, qr)
                      c == applyInlineJoins(a.q, a.j.joins)
                      r == applyInlineJoins(c.q, Tail(joins))
                  IN  [q |-> r.q, joins |-> <<[a.j EXCEPT !.joins = c.joins]>> \o r.joins]
             ELSE LET r == applyInlineJoins(qr, Tail(joins))
                  IN  [q |-> r.q, joins |-> <<j>> \o r.joins]

\* A walk that calls fn on the joins of every type.
RECURSIVE forEachRelJoin(_)
forEachRelJoin(joins) ==
    IF joins = <<>> THEN <<>>
    ELSE <<Head(joins)>> \o forEachRelJoin(Head(joins).joins) \o forEachRelJoin(Tail(joins))

\* _forEachInlineRelJoin: the to-one joins in the order fn is called on them.
RECURSIVE forEachInlineRelJoin(_)
forEachInlineRelJoin(joins) ==
    IF joins = <<>> THEN <<>>
    ELSE LET j == Head(joins)
         IN  (IF j.type \in ToOne THEN <<j>> \o forEachInlineRelJoin(j.joins) ELSE <<>>)
             \o forEachInlineRelJoin(Tail(joins))

------------------------------------------------------------------------------
(* Rendering: SQL text as a sequence of tokens *)

\* items separated by sep
sepBy(items, sep) ==
    [i \in 1..(IF Len(items) = 0 THEN 0 ELSE 2 * Len(items) - 1) |->
        IF i % 2 = 1 THEN items[(i + 1) \div 2] ELSE sep]

RECURSIVE flatten(_)
flatten(ss) == IF ss = <<>> THEN <<>> ELSE Head(ss) \o flatten(Tail(ss))

appendComment(comment) == IF comment = "" THEN <<>> ELSE <<"/* ", comment, " */ ">>

\* "(cond)" fragments, each but the first preceded by its own separator
appendConds(conds) ==
    flatten([i \in 1..Len(conds) |->
        (IF i > 1 THEN <<conds[i].sep>> ELSE <<>>) \o <<"(", conds[i].query, ")">>])

appendWhere(qr) == IF qr.where = <<>> THEN <<>> ELSE <<" WHERE ">> \o appendConds(qr.where)

joinAppendQuery(j) ==
    <<" ", j.join>> \o (IF Len(j.on) > 0 THEN <<" ON ">> \o appendConds(j.on) ELSE <<>>)

appendHasOneJoin(j) ==
    <<"LEFT JOIN ", j.model, " AS ", j.name, " ON (", j.name, ".fk = pk)">>
    \o flatten([i \in 1..Len(j.addOn) |-> <<" AND (", j.addOn[i], ")">>])

appendInlineRelColumns(j) ==
    IF ~j.columns.nil THEN sepBy(j.columns.elems, ", ")
    ELSE <<j.name, ".*fields">>

\* The loop of appendColumns over the inline joins; fresh is len(b) = start.
RECURSIVE inlineColumns(_, _, _)
inlineColumns(b, joins, fresh) ==
    IF joins = <<>> THEN b
    ELSE LET cols == appendInlineRelColumns(Head(joins))
             b1 == IF fresh THEN b ELSE b \o <<", ">>
         IN  inlineColumns(b1 \o cols, Tail(joins), cols = <<>>)

trimSuffix(b) == IF b # <<>> /\ b[Len(b)] = ", " THEN SubSeq(b, 1, Len(b) - 1) ELSE b

appendColumns(qr) ==
    LET own == IF ~qr.columns.nil THEN sepBy(qr.columns.elems, ", ")
               ELSE IF ~qr.tableModel.nil THEN <<"user", ".*fields">>
               ELSE <<"*">>
    IN  trimSuffix(inlineColumns(own, forEachInlineRelJoin(qr.tableModel.joins), own = <<>>))

hasTables(qr) == ~qr.tableModel.nil \/ Len(qr.tables.elems) > 0

appendTables(qr) ==
    <<" FROM ">> \o sepBy((IF qr.tableModel.nil THEN <<>> ELSE <<"users AS user">>)
                          \o qr.tables.elems, ", ")

appendIndexHints(qr) ==
    IF qr.use.nil \/ qr.use.elems = <<>> THEN <<>>
    ELSE <<" USE INDEX (">> \o sepBy(qr.use.elems, ", ") \o <<")">>

appendOrder(qr) ==
    IF qr.order.elems = <<>> THEN <<>> ELSE <<" ORDER BY ">> \o sepBy(qr.order.elems, ", ")

appendLimitOffset(qr) ==
    (IF qr.limit > 0 THEN <<" LIMIT ", ToString(qr.limit)>> ELSE <<>>)
    \o (IF qr.offset > 0 THEN <<" OFFSET ", ToString(qr.offset)>> ELSE <<>>)

\* A count statement that kept the ORDER BY, LIMIT/OFFSET and FOR clauses.
selectTailAlways(qr, count) ==
    appendOrder(qr) \o appendLimitOffset(qr)
    \o (IF qr.selFor # "" THEN <<" FOR ", qr.selFor>> ELSE <<>>)

\* if !count { appendOrder, appendLimitOffset, " FOR " ... }
selectTail(qr, count) ==
    IF ~count
    THEN appendOrder(qr) \o appendLimitOffset(qr)
         \o (IF qr.selFor # "" THEN <<" FOR ", qr.selFor>> ELSE <<>>)
    ELSE <<>>

\* appendQuery from "SELECT " to the locking clause, on the query as it is after
\* the inline joins' closures have run.
selectBody(qr, joins, count, cteCount) ==
    <<"SELECT ">>
    \o (IF Len(qr.distinctOn.elems) > 0
        THEN <<"DISTINCT ON (">> \o sepBy(qr.distinctOn.elems, ", ") \o <<") ">>
        ELSE IF ~qr.distinctOn.nil THEN <<"DISTINCT ">> ELSE <<>>)
    \o (IF count /\ ~cteCount THEN <<"count(*)">> ELSE appendColumns(qr))
    \o (IF hasTables(qr) THEN appendTables(qr) ELSE <<>>)
    \o appendIndexHints(qr)
    \o flatten([i \in 1..Len(forEachInlineRelJoin(qr.tableModel.joins)) |->
            <<" ">> \o appendHasOneJoin(forEachInlineRelJoin(qr.tableModel.joins)[i])])
    \o flatten([i \in 1..Len(joins) |-> joinAppendQuery(joins[i])])
    \o appendWhere(qr)
    \o (IF Len(qr.group.elems) > 0
        THEN <<" GROUP BY ">> \o sepBy(qr.group.elems, ", ") ELSE <<>>)
    \o (IF Len(qr.having.elems) > 0
        THEN <<" HAVING ">>
             \o flatten([i \in 1..Len(qr.having.elems) |->
                    (IF i > 1 THEN <<" AND ">> ELSE <<>>)
                    \o <<"(", qr.having.elems[i], ")">>])
        ELSE <<>>)
    \o selectTail(qr, count)

Failed(h, e) == [h |-> h, err |-> e, b |-> <<>>]

\* AppendQuery and appendQuery.  A render returns the text, or the error and no
\* text, and the heap as the render leaves it: rendering a nested query
\* renders (and so may change) the object the outer query points to.
RECURSIVE renderAs(_, _, _, _), appendQuery(_, _, _, _), appendWith(_, _, _, _),
          appendUnion(_, _, _, _)

\* What each AppendQuery puts around the text of appendQuery: the comment
\* (SelectQuery), nothing (countQuery), the EXISTS wrappers.
wrapQuery(kind, comment, r) ==
    IF r.err # NoErr THEN r
    ELSE CASE kind = "select" -> [r EXCEPT !.b = appendComment(comment) \o @]
           [] kind = "exists" -> [r EXCEPT !.b = <<"SELECT EXISTS (">> \o @ \o <<")">>]
           [] kind = "whereExists" ->
                [r EXCEPT !.b = <<"SELECT 1 WHERE EXISTS (">> \o @ \o <<")">>]
           [] OTHER -> r

\* The four AppendQuery methods: countQuery, selectExistsQuery and
\* whereExistsQuery check q.err themselves, SelectQuery leaves it to appendQuery.
renderAs(kind, h, ja, q) ==
    IF h[q].err # NoErr THEN Failed(h, h[q].err)
    ELSE wrapQuery(kind, h[q].comment, appendQuery(h, ja, q, kind = "count"))

AppendQuery(h, ja, q) == renderAs("select", h, ja, q)

\* The WITH clause from entry i on: "name AS (sub-query)" per entry.
appendWith(h, ja, q, i) ==
    IF i > Len(h[q].with) THEN [h |-> h, err |-> NoErr, b |-> <<>>]
    ELSE LET w == h[q].with[i]
             r == AppendQuery(h, ja, w.query)
         IN  IF r.err # NoErr THEN r
             ELSE LET rest == appendWith(r.h, ja, q, i + 1)
                  IN  IF rest.err # NoErr THEN rest
                      ELSE [h |-> rest.h, err |-> NoErr,
                            b |-> (IF i = 1 THEN <<"WITH ">> ELSE <<", ">>)
                                  \o <<w.name, " AS (">> \o r.b \o <<")">>
                                  \o (IF i = Len(h[q].with) THEN <<" ">> ELSE <<>>)
                                  \o rest.b]

\* The set-operation branches from operand i on.
appendUnion(h, ja, q, i) ==
    IF i > Len(h[q].union) THEN [h |-> h, err |-> NoErr, b |-> <<>>]
    ELSE LET u == h[q].union[i]
             r == AppendQuery(h, ja, u.query)
         IN  IF r.err # NoErr THEN r
             ELSE LET rest == appendUnion(r.h, ja, q, i + 1)
                  IN  IF rest.err # NoErr THEN rest
                      ELSE [h |-> rest.h, err |-> NoErr,
                            b |-> <<u.expr, "(">> \o r.b \o <<")">> \o rest.b]

appendQuery(h, ja, q, count) ==
    IF h[q].err # NoErr THEN Failed(h, h[q].err)
    ELSE
    LET cteCount == count /\ (Len(h[q].group.elems) > 0 \/ ~h[q].distinctOn.nil)
        open == (IF cteCount THEN <<"WITH _count_wrapper AS (">> ELSE <<>>)
                \o (IF Len(h[q].union) > 0 THEN <<"(">> ELSE <<>>)
        w == appendWith(h, ja, q, 1)
    IN  IF w.err # NoErr THEN w
        ELSE
        LET a == applyInlineJoins(w.h[q], w.h[q].tableModel.joins)
            qr == [a.q EXCEPT !.tableModel.joins = a.joins]
            h1 == [w.h EXCEPT ![q] = qr]
            u == appendUnion(h1, ja, q, 1)
        IN  IF u.err # NoErr THEN u
            ELSE [h |-> u.h, err |-> NoErr,
                  b |-> open \o w.b \o selectBody(qr, joinsOf(ja, qr), count, cteCount)
                        \o (IF Len(qr.union) > 0 THEN <<")">> ELSE <<>>) \o u.b
                        \o (IF cteCount
                            THEN <<") SELECT count(*) FROM _count_wrapper">>
                            ELSE <<>>)]

\* countQuery / selectExistsQuery / whereExistsQuery .AppendQuery
countAppendQuery(h, ja, q) == renderAs("count", h, ja, q)
selectExistsAppendQuery(h, ja, q) == renderAs("exists", h, ja, q)
whereExistsAppendQuery(h, ja, q) == renderAs("whereExists", h, ja, q)

\* What a render started now returns: the text, or the error.
renderOut(h, ja, q) ==
    LET r == AppendQuery(h, ja, q) IN [err |-> r.err, b |-> r.b]

------------------------------------------------------------------------------
(* Clone *)

cloneArgs(s) == IF Len(s.elems) = 0 THEN NilSlice ELSE Slice(s.elems)

cloneHints(hints) == IF hints.nil THEN NilSlice ELSE Slice(cloneArgs(hints).elems)

\* tableModel.clone(): the relation-join state is duplicated.
cloneTableModel(tm) == tm

\* The with entries are copied; each entry's query is the same object.
cloneWith(with) == [i \in 1..Len(with) |-> [name |-> with[i].name, query |-> with[i].query]]

\* A Clone that kept q.joins would have its slice over the original's array.
shareJoinsSlice(qr, c) == qr.joins

\* joins: make([]joinQuery, len(q.joins)): the clone's slice is over an array
\* of its own.
cloneJoinsSlice(qr, c) == c

\* The struct literal of Clone: err and conn are not among the fields it sets.
cloneFields(qr, c) ==
    [ err |-> NoErr, conn |-> NoConn,
      tableModel |-> cloneTableModel(qr.tableModel),
      with |-> cloneWith(qr.with),
      tables |-> cloneArgs(qr.tables), columns |-> cloneArgs(qr.columns),
      where |-> [i \in 1..Len(qr.where) |-> qr.where[i]],
      use |-> cloneHints(qr.use),
      order |-> cloneArgs(qr.order), limit |-> qr.limit, offset |-> qr.offset,
      distinctOn |-> cloneArgs(qr.distinctOn),
      joins |-> cloneJoinsSlice(qr, c),
      group |-> cloneArgs(qr.group), having |-> cloneArgs(qr.having),
      selFor |-> qr.selFor, union |-> <<>>, comment |-> qr.comment ]

\* make([]joinQuery, len(q.joins)) and the copy loop: a new backing array.
cloneJoins(ja, qr) ==
    [i \in 1..Len(joinsOf(ja, qr)) |->
        [join |-> joinsOf(ja, qr)[i].join,
         on |-> [k \in 1..Len(joinsOf(ja, qr)[i].on) |-> joinsOf(ja, qr)[i].on[k]]]]

\* Clone allocates the copy, then clones each set-operation operand.  from
\* lists, for each object allocated, the object it copies.
RECURSIVE Clone(_, _, _), cloneUnion(_, _, _, _)

cloneUnion(h, ja, us, i) ==
    IF i > Len(us) THEN [h |-> h, ja |-> ja, union |-> <<>>, from |-> <<>>]
    ELSE LET r == Clone(h, ja, us[i].query)
             rest == cloneUnion(r.h, r.ja, us, i + 1)
         IN  [h |-> rest.h, ja |-> rest.ja,
              union |-> <<[expr |-> us[i].expr, query |-> r.id]>> \o rest.union,
              from |-> r.from \o rest.from]

Clone(h, ja, q) ==
    LET c == Len(h) + 1
        r == cloneUnion(Append(h, cloneFields(h[q], c)),
                        Append(ja, cloneJoins(ja, h[q])), h[q].union, 1)
    IN  [h |-> [r.h EXCEPT ![c].union = r.union], ja |-> r.ja, id |-> c,
         from |-> <<q>> \o r.from]

\* The query objects reachable from q through WITH entries and operands.
nested(h, q) ==
    {h[q].with[i].query : i \in 1..Len(h[q].with)}
    \cup {h[q].union[i].query : i \in 1..Len(h[q].union)}

RECURSIVE reachFrom(_, _)
reachFrom(h, S) ==
    LET T == S \cup UNION {nested(h, x) : x \in S}
    IN  IF T = S THEN S ELSE reachFrom(h, T)

Reach(h, q) == reachFrom(h, {q})

------------------------------------------------------------------------------
(* The builder: one action per builder method, on any query of the heap *)

Dialects == {"pg", "mysql"}
Seps == {" AND ", " OR "}
LimitArgs == {-1, 1}
RelationArgs == {<<"Profile">>, <<"Items">>, <<"Missing">>}
FnArgs == {NoFn} \cup ApplyFns
AddOnArgs == {<<>>, <<"rel.deleted IS NULL">>}

NoOp == [name |-> "none"]
NoSac ==
    [ state |-> "idle", countQuery |-> 0, started |-> {}, exited |-> {},
      firstErr |-> NoErr, count |-> 0, order |-> <<>>, err |-> NoErr, n |-> 0 ]
NewDB(dialect, features, nhooks) ==
    [ dialect |-> dialect, features |-> features,
      queryHooks |-> [i \in 1..nhooks |-> i],
      stats |-> [Queries |-> 0, Errors |-> 0] ]

\* A builder call on q leaves the record qr2; the ghost keeps the first error
\* a call recorded on q.
build(q, qr2) ==
    /\ nops < MaxOps
    /\ nops' = nops + 1
    /\ heap' = [heap EXCEPT ![q] = qr2]
    /\ recorded' = IF recorded[q] = NoErr THEN [recorded EXCEPT ![q] = qr2.err]
                   ELSE recorded
    /\ UNCHANGED <<origin, execVars>>

NewSelectCall ==
    /\ nops < MaxOps /\ Len(heap) < MaxQueries
    /\ nops' = nops + 1
    /\ heap' = Append(heap, EmptyQuery)
    /\ joinArr' = Append(joinArr, <<>>)
    /\ recorded' = Append(recorded, NoErr)
    /\ origin' = Append(origin, 0)
    /\ UNCHANGED execVars

ModelCall(q) == build(q, setModel(heap[q])) /\ UNCHANGED joinArr
ErrCall(q) == build(q, setErr(heap[q], ErrUser)) /\ UNCHANGED joinArr
DistinctCall(q) == build(q, Distinct(heap[q])) /\ UNCHANGED joinArr
DistinctOnCall(q) == build(q, DistinctOn(heap[q], "kind")) /\ UNCHANGED joinArr
TableCall(q) == build(q, addTable(heap[q], "t")) /\ UNCHANGED joinArr
ColumnCall(q) == build(q, addColumn(heap[q], "id")) /\ UNCHANGED joinArr
WhereCall(q) ==
    \E sep \in Seps :
        build(q, addWhere(heap[q], [query |-> "a = 1", sep |-> sep])) /\ UNCHANGED joinArr
UseIndexCall(q) == build(q, UseIndex(db.dialect, heap[q], "ix")) /\ UNCHANGED joinArr
GroupCall(q) == build(q, Group(heap[q], "kind")) /\ UNCHANGED joinArr
HavingCall(q) == build(q, Having(heap[q], "count(*) > 1")) /\ UNCHANGED joinArr
OrderCall(q) == build(q, Order(heap[q], "id DESC")) /\ UNCHANGED joinArr
LimitCall(q) == \E n \in LimitArgs : build(q, setLimit(heap[q], n)) /\ UNCHANGED joinArr
OffsetCall(q) == build(q, setOffset(heap[q], 1)) /\ UNCHANGED joinArr
ForCall(q) == build(q, For(heap[q], "UPDATE")) /\ UNCHANGED joinArr
CommentCall(q) == build(q, Comment(heap[q], "note")) /\ UNCHANGED joinArr

\* With and Union take another query; a query that contains itself cannot be
\* rendered or cloned (both recurse without end), so such calls are left out.
WithCall(q) ==
    \E sub \in QIds :
        /\ q \notin Reach(heap, sub)
        /\ build(q, addWith(heap[q], "cte", sub)) /\ UNCHANGED joinArr

UnionCall(q) ==
    \E other \in QIds :
        /\ q \notin Reach(heap, other)
        /\ build(q, addUnion(heap[q], " UNION ", other)) /\ UNCHANGED joinArr

\* Join appends to q.joins: in place in the array q owns, else into a new one.
Join(ja, q, qr, join) ==
    [ja EXCEPT ![q] = Append(joinsOf(ja, qr), [join |-> join, on |-> <<>>])]

JoinCall(q) ==
    /\ build(q, [heap[q] EXCEPT !.joins = q])
    /\ joinArr' = Join(joinArr, q, heap[q], "JOIN t2")

\* joinOn: an error when there is no join, else the condition is appended to
\* the last element of the backing array, in place.
joinOn(ja, qr, cond, sep) ==
    IF Len(joinsOf(ja, qr)) = 0 THEN ja
    ELSE [ja EXCEPT ![qr.joins][Len(ja[qr.joins])].on =
                        Append(@, [query |-> cond, sep |-> sep])]

JoinOnCall(q) ==
    \E sep \in Seps :
        /\ build(q, IF Len(joinsOf(joinArr, heap[q])) = 0
                    THEN setErr(heap[q], ErrNoJoins) ELSE heap[q])
        /\ joinArr' = joinOn(joinArr, heap[q], "t2.id = id", sep)

RelationCallAct(q) ==
    \E path \in RelationArgs, fn \in FnArgs :
        build(q, Relation(heap[q], path, fn)) /\ UNCHANGED joinArr

RelationWithOptsCall(q) ==
    \E path \in RelationArgs, fn \in FnArgs, addOn \in AddOnArgs :
        build(q, RelationWithOpts(heap[q], path, fn, addOn)) /\ UNCHANGED joinArr

\* AppendQuery / String on q: the caller gets the text; the heap is left as
\* the render leaves it.
RenderCall(q) ==
    /\ nops < MaxOps
    /\ nops' = nops + 1
    /\ heap' = AppendQuery(heap, joinArr, q).h
    /\ UNCHANGED <<joinArr, recorded, origin, execVars>>

CloneCall(q) ==
    LET r == Clone(heap, joinArr, q)
    IN  /\ nops < MaxOps /\ Len(r.h) <= MaxQueries
        /\ nops' = nops + 1
        /\ heap' = r.h
        /\ joinArr' = r.ja
        /\ origin' = origin \o r.from
        /\ recorded' = recorded \o [i \in 1..Len(r.from) |-> recorded[r.from[i]]]
        /\ UNCHANGED execVars

InitBuild ==
    /\ heap = <<EmptyQuery>>
    /\ joinArr = << <<>> >>
    /\ nops = 0
    /\ recorded = <<NoErr>>
    /\ origin = <<0>>
    /\ db \in {NewDB(d, {"SelectExists"}, 0) : d \in Dialects}
    /\ op = NoOp
    /\ tasks = <<>>
    /\ stmts = <<>>
    /\ sac = NoSac

NextBuild ==
    \/ NewSelectCall
    \/ \E q \in QIds : ModelCall(q)
    \/ \E q \in QIds : ErrCall(q)
    \/ \E q \in QIds : DistinctCall(q)
    \/ \E q \in QIds : DistinctOnCall(q)
    \/ \E q \in QIds : TableCall(q)
    \/ \E q \in QIds : ColumnCall(q)
    \/ \E q \in QIds : WhereCall(q)
    \/ \E q \in QIds : UseIndexCall(q)
    \/ \E q \in QIds : GroupCall(q)
    \/ \E q \in QIds : HavingCall(q)
    \/ \E q \in QIds : OrderCall(q)
    \/ \E q \in QIds : LimitCall(q)
    \/ \E q \in QIds : OffsetCall(q)
    \/ \E q \in QIds : ForCall(q)
    \/ \E q \in QIds : CommentCall(q)
    \/ \E q \in QIds : WithCall(q)
    \/ \E q \in QIds : UnionCall(q)
    \/ \E q \in QIds : JoinCall(q)
    \/ \E q \in QIds : JoinOnCall(q)
    \/ \E q \in QIds : RelationCallAct(q)
    \/ \E q \in QIds : RelationWithOptsCall(q)
    \/ \E q \in QIds : RenderCall(q)
    \/ \E q \in QIds : CloneCall(q)

SpecBuild == InitBuild /\ [][NextBuild]_vars

------------------------------------------------------------------------------
(* Statement execution: the hook pipeline around the execution adapter *)

MaxRows == 1       \* rows a statement affects

ErrExec == "adapter error"
ErrNoRows == "sql: no rows in result set"
Pool == "pool"

\* What the execution adapter answers: an affected-row count, or an error.
Outcomes ==
    {[err |-> NoErr, n |-> k] : k \in 0..MaxRows}
    \cup {[err |-> e, n |-> 0] : e \in {ErrExec, ErrNoRows}}

\* resolveConn: the pinned connection when there is one, else the pool.
resolveConn(conn) == IF conn # NoConn THEN conn ELSE Pool

\* beforeQuery: the counter is incremented; with no hook registered no event is
\* made and no hook is called, else BeforeQuery runs on each hook in
\* registration order with the one event.
beforeQueryCalls(hooks, ev) ==
    [i \in 1..Len(hooks) |-> [phase |-> "before", hook |-> hooks[i], ev |-> ev]]

\* A loop that went up from 0 to hookIndex instead.
afterQueryForward(hooks, hookIndex, ev) ==
    [i \in 1..hookIndex |-> [phase |-> "after", hook |-> hooks[i], ev |-> ev]]

\* afterQueryFromIndex: AfterQuery from hookIndex down to 0.
afterQueryFromIndex(hooks, hookIndex, ev) ==
    [i \in 1..hookIndex |-> [phase |-> "after", hook |-> hooks[hookIndex - i + 1], ev |-> ev]]

\* A switch with no case for sql.ErrNoRows.
countsAnyError(err) == err # NoErr

\* afterQuery: the error counter, then (when there is an event) the hooks.
countsAsError(err) == err \notin {NoErr, ErrNoRows}

\* An afterQuery that left event.Err alone.
eventErrUnset(err) == NoErr

\* event.Err = err, before the hooks are called.
eventErr(err) == err

afterQueryCalls(hooks, ev) ==
    IF ev = 0 THEN <<>> ELSE afterQueryFromIndex(hooks, Len(hooks), ev)

NewStmt(t, kind, text, conn, ev) ==
    [ task |-> t, kind |-> kind, text |-> text, conn |-> conn, state |-> "before",
      calls |-> beforeQueryCalls(db.queryHooks, ev), event |-> ev, evErr |-> NoErr,
      err |-> NoErr, n |-> 0 ]

------------------------------------------------------------------------------
(* Terminal operations.  An activation of Rows, Exec, Scan, Count or Exists   *)
(* runs in a slot of `tasks`; go names the goroutine that runs it.  The        *)
(* op.dest tells whether Scan was given a destination; the context carries   *)
(* no comment.                                                                *)

Slots == {"op", "scan", "count"}
Routines == {"Rows", "Exec", "Scan", "Count", "Exists"}

IdleTask ==
    [ routine |-> "none", q |-> 0, pc |-> "idle", go |-> "none", snap |-> <<>>,
      reads |-> {}, writes |-> {}, log |-> <<>>,
      text |-> <<>>, kind |-> "", pending |-> <<>>, stmt |-> 0, err |-> NoErr, n |-> 0 ]

\* ghost: the steps a task has taken, each with the error it ended in.
logStep(task, step, err) == [task EXCEPT !.log = Append(@, [step |-> step, err |-> err])]

Activate(routine, q, g) ==
    [IdleTask EXCEPT !.routine = routine, !.q = q, !.pc = "start", !.go = g]

Finished(task, err, n) ==
    [task EXCEPT !.pc = "done", !.err = err, !.n = n, !.snap = <<>>]

hasFeature(feature) == feature \in db.features

\* An Exists that knew the native form only.
kindForNative(routine) ==
    CASE routine = "Count" -> "count"
      [] routine = "Exists" -> "exists"
      [] OTHER -> "select"

\* The statement a routine renders.
kindFor(routine) ==
    CASE routine = "Count" -> "count"
      [] routine = "Exists" /\ hasFeature("SelectExists") -> "exists"
      [] routine = "Exists" -> "whereExists"
      [] OTHER -> "select"

\* A resolver that looks at the joins of the root model only.
selectJoinsRootOnly(joins) ==
    LET rec[k \in 0..Len(joins)] ==
            IF k = 0 THEN <<>>
            ELSE rec[k - 1] \o (IF joins[k].type \in ToOne THEN <<>> ELSE <<joins[k].name>>)
    IN  rec[Len(joins)]

\* selectJoins: the has-many and many-to-many joins, depth-first through the
\* to-one joins, in the order their follow-up statements are issued.
RECURSIVE selectJoins(_)
selectJoins(joins) ==
    IF joins = <<>> THEN <<>>
    ELSE LET j == Head(joins)
         IN  (IF j.type \in ToOne THEN selectJoins(j.joins) ELSE <<j.name>>)
             \o selectJoins(Tail(joins))

\* The objects a render of q reads, and those it writes: applyTo writes the
\* query it is applied to whenever the join has a closure.  A task's reads and
\* writes collect the objects it has accessed.
renderReads(h, q) == Reach(h, q)
renderWrites(h, q) ==
    {x \in Reach(h, q) :
        \E i \in 1..Len(forEachInlineRelJoin(h[x].tableModel.joins)) :
            ~forEachInlineRelJoin(h[x].tableModel.joins)[i].apply.nil}

\* beforeSelectHook / afterSelectHook, called when q.table != nil: the method
\* is called when the model's type implements the interface.
selectHook(qr, name) ==
    IF qr.tableModel.nil \/ qr.tableModel.hooks[name] = NotImplemented
    THEN [called |-> FALSE, err |-> NoErr]
    ELSE [called |-> TRUE, err |-> qr.tableModel.hooks[name]]

\* The task after a select hook: the call is logged when there was one.
afterHook(task, name, hook) ==
    IF hook.called THEN logStep(task, name, hook.err) ELSE task

\* q.getModel(dest): the query's model when Scan is given no destination,
\* else a model made of the destination, which has none of the query's joins.
getModel(qr, dest) == IF dest THEN NewTableModel ELSE qr.tableModel

\* scanResult refuses a destination when one of q.tableModel.getJoins() is a
\* has-many or a many-to-many join.
destCheck(qr, dest) ==
    IF /\ dest /\ ~qr.tableModel.nil
       /\ \E i \in DOMAIN qr.tableModel.joins :
                qr.tableModel.joins[i].type \in {HasManyRelation, ManyToManyRelation}
    THEN ErrDestToMany ELSE NoErr

\* Every terminal operation starts with the check of q.err; a scan then
\* checks its destination and calls the BeforeSelect hook of the model.
Start(t) ==
    LET task == [tasks[t] EXCEPT !.reads = {tasks[t].q}]
        qr == heap[task.q]
        destErr == IF task.routine = "Scan" THEN destCheck(qr, op.dest) ELSE NoErr
        hook == IF task.routine = "Scan" THEN selectHook(qr, "BeforeSelect")
                ELSE [called |-> FALSE, err |-> NoErr]
    IN  /\ tasks[t].pc = "start"
        /\ tasks' = [tasks EXCEPT ![t] =
                IF qr.err # NoErr THEN Finished(task, qr.err, 0)
                ELSE IF destErr # NoErr THEN Finished(task, destErr, 0)
                ELSE IF hook.err # NoErr
                     THEN Finished(afterHook(task, "BeforeSelect", hook), hook.err, 0)
                     ELSE [afterHook(task, "BeforeSelect", hook) EXCEPT !.pc = "render"]]
        /\ UNCHANGED <<buildVars, db, op, stmts, sac>>

\* Rendering takes time: it reads the query objects as they are when it
\* starts and its writes land when it ends.
RenderBegin(t) ==
    /\ tasks[t].pc = "render"
    /\ tasks' = [tasks EXCEPT ![t].pc = "rendering", ![t].snap = heap,
                             ![t].reads = @ \cup renderReads(heap, tasks[t].q),
                             ![t].writes = @ \cup renderWrites(heap, tasks[t].q)]
    /\ UNCHANGED <<buildVars, db, op, stmts, sac>>

RenderEnd(t) ==
    LET task == tasks[t]
        r == renderAs(kindFor(task.routine), task.snap, joinArr, task.q)
    IN  /\ task.pc = "rendering"
        /\ heap' = [x \in DOMAIN heap |->
                        IF x \in DOMAIN task.snap /\ r.h[x] # task.snap[x]
                        THEN r.h[x] ELSE heap[x]]
        /\ tasks' = [tasks EXCEPT ![t] =
                IF r.err # NoErr THEN Finished(logStep(task, "render", r.err), r.err, 0)
                ELSE [logStep(task, "render", NoErr) EXCEPT
                            !.pc = "before", !.text = r.b, !.snap = <<>>,
                            !.kind = kindFor(task.routine)]]
        /\ UNCHANGED <<joinArr, nops, recorded, origin, db, op, stmts, sac>>

BeforeQuery(t) ==
    LET task == tasks[t]
        id == Len(stmts) + 1
        ev == IF Len(db.queryHooks) = 0 THEN 0 ELSE id
    IN  /\ task.pc = "before"
        /\ db' = [db EXCEPT !.stats.Queries = @ + 1]
        /\ stmts' = Append(stmts, NewStmt(t, task.kind, task.text,
                                          resolveConn(heap[task.q].conn), ev))
        /\ tasks' = [tasks EXCEPT ![t].pc = "send", ![t].stmt = id]
        /\ UNCHANGED <<buildVars, op, sac>>

\* The statement goes to the execution adapter ...
Send(t) ==
    /\ tasks[t].pc = "send"
    /\ stmts' = [stmts EXCEPT ![tasks[t].stmt].state = "inflight"]
    /\ tasks' = [tasks EXCEPT ![t].pc = "wait"]
    /\ UNCHANGED <<buildVars, db, op, sac>>

\* ... and the adapter answers.
Return(t) ==
    /\ tasks[t].pc = "wait"
    /\ \E o \in Outcomes :
            stmts' = [stmts EXCEPT ![tasks[t].stmt].state = "returned",
                                   ![tasks[t].stmt].err = o.err,
                                   ![tasks[t].stmt].n = o.n]
    /\ tasks' = [tasks EXCEPT ![t].pc = "after"]
    /\ UNCHANGED <<buildVars, db, op, sac>>

\* What follows the statement: an error ends the operation; Scan goes on to the
\* follow-up statements of selectJoins when rows came back; Exists reads the
\* answer (whereExists: n == 1).
followupText(name) == <<"SELECT", "*", " FROM ", name, " WHERE ", "fk IN (pks)">>

\* A scan that resolved the deferred joins whatever the row count.
deferredJoinsAlways(n, tm) == IF ~tm.nil THEN selectJoins(tm.joins) ELSE <<>>

\* if n, _ := res.RowsAffected(); n > 0 { selectJoins(tableModel.getJoins()) }
deferredJoins(n, tm) == IF n > 0 /\ ~tm.nil THEN selectJoins(tm.joins) ELSE <<>>

\* An Exists that answered true whenever the statement ran.
existsResultAlways(kind, n) == 1

\* selectExists scans the one boolean of the answer; whereExists returns
\* n == 1 of the affected rows (1 is true, 0 is false).
existsResult(kind, n) ==
    IF kind = "exists" THEN (IF n > 0 THEN 1 ELSE 0) ELSE (IF n = 1 THEN 1 ELSE 0)

\* A scan that went on after a statement failed.
afterStatementContinue(task, s) ==
    IF s.kind = "followup" THEN [task EXCEPT !.pc = "joins", !.pending = Tail(@)]
    ELSE [task EXCEPT !.pc = "joins", !.n = s.n,
                      !.pending = deferredJoins(s.n, getModel(heap[task.q], op.dest))]

afterStatement(task, s) ==
    IF s.err # NoErr THEN Finished(task, s.err, 0)
    ELSE CASE s.kind = "followup" -> [task EXCEPT !.pc = "joins", !.pending = Tail(@)]
           [] task.routine = "Scan" ->
                [task EXCEPT !.pc = "joins", !.n = s.n,
                             !.pending = deferredJoins(s.n, getModel(heap[task.q], op.dest))]
           [] task.routine = "Exists" -> Finished(task, NoErr, existsResult(s.kind, s.n))
           [] OTHER -> Finished(task, NoErr, s.n)

AfterQuery(t) ==
    LET task == tasks[t]
        s == stmts[task.stmt]
    IN  /\ task.pc = "after"
        /\ db' = [db EXCEPT !.stats.Errors = IF countsAsError(s.err) THEN @ + 1 ELSE @]
        /\ stmts' = [stmts EXCEPT ![task.stmt].state = "done",
                                  ![task.stmt].evErr = IF s.event = 0 THEN @ ELSE eventErr(s.err),
                                  ![task.stmt].calls = @ \o afterQueryCalls(db.queryHooks, s.event)]
        /\ tasks' = [tasks EXCEPT ![t] =
                afterStatement(logStep(task, IF s.kind = "followup" THEN "followup"
                                             ELSE "primary", s.err), s)]
        /\ UNCHANGED <<buildVars, op, sac>>

\* selectJoins: one follow-up statement per has-many / many-to-many join, on
\* q.conn, until one fails; then the AfterSelect hook of the model, and the
\* result.
SelectJoins(t) ==
    LET task == tasks[t]
        hook == selectHook(heap[task.q], "AfterSelect")
    IN  /\ task.pc = "joins"
        /\ tasks' = [tasks EXCEPT ![t] =
                IF task.pending = <<>>
                THEN IF hook.err # NoErr
                     THEN Finished(afterHook(task, "AfterSelect", hook), hook.err, 0)
                     ELSE Finished(afterHook(task, "AfterSelect", hook), NoErr, task.n)
                ELSE [task EXCEPT !.pc = "before", !.kind = "followup",
                                  !.text = followupText(Head(task.pending))]]
        /\ UNCHANGED <<buildVars, db, op, stmts, sac>>

------------------------------------------------------------------------------
(* ScanAndCount *)

\* A dispatch that did not look at q.conn.
sacPathUnpinned(qr) ==
    IF qr.offset = 0 /\ qr.limit = 0 THEN "single" ELSE "concurrent"

\* A dispatch with no single-statement way.
sacPathTwoStatements(qr) == IF qr.conn = NoConn THEN "concurrent" ELSE "seq"

\* The three ways of ScanAndCount.
sacPath(qr) ==
    IF qr.offset = 0 /\ qr.limit = 0 THEN "single"
    ELSE IF qr.conn = NoConn THEN "concurrent" ELSE "seq"

\* A ScanAndCount that scans whatever the limit.
scansAlways(qr) == TRUE

\* Don't scan results if the user explicitly set Limit(-1).
scansRows(qr) == qr.limit >= 0

\* An unconditional firstErr = err.
lastErr(firstErr, err) == err

\* if firstErr == nil { firstErr = err }, under mu.
recordErr(firstErr, err) == IF firstErr = NoErr THEN err ELSE firstErr

\* No limit and no offset: the one scan statement gives rows and count.
SacSingle ==
    /\ sac.state = "start" /\ sacPath(heap[op.q]) = "single"
    /\ tasks' = [tasks EXCEPT !["scan"] = Activate("Scan", op.q, "main")]
    /\ sac' = [sac EXCEPT !.state = "single"]
    /\ UNCHANGED <<buildVars, db, op, stmts>>

SacSingleReturn ==
    /\ sac.state = "single" /\ tasks["scan"].pc = "done"
    /\ sac' = [sac EXCEPT !.state = "done", !.err = tasks["scan"].err,
                          !.n = IF tasks["scan"].err = NoErr THEN tasks["scan"].n ELSE 0]
    /\ UNCHANGED <<buildVars, db, op, stmts, tasks>>

\* scanAndCountConcurrently: countQuery := q.Clone() ...
SacClone ==
    LET r == Clone(heap, joinArr, op.q)
    IN  /\ sac.state = "start" /\ sacPath(heap[op.q]) = "concurrent"
        /\ heap' = r.h
        /\ joinArr' = r.ja
        /\ origin' = origin \o r.from
        /\ recorded' = recorded \o [i \in 1..Len(r.from) |-> recorded[r.from[i]]]
        /\ sac' = [sac EXCEPT !.state = "cloned", !.countQuery = r.id]
        /\ UNCHANGED <<nops, db, op, stmts, tasks>>

\* ... the scan goroutine, unless the limit is negative ...
SacGoScan ==
    /\ sac.state = "cloned"
    /\ IF scansRows(heap[op.q])
       THEN /\ tasks' = [tasks EXCEPT !["scan"] = Activate("Scan", op.q, "g1")]
            /\ sac' = [sac EXCEPT !.state = "scanGo", !.started = @ \cup {"scan"}]
       ELSE /\ sac' = [sac EXCEPT !.state = "scanGo"]
            /\ UNCHANGED tasks
    /\ UNCHANGED <<buildVars, db, op, stmts>>

\* ... the count goroutine ...
SacGoCount ==
    /\ sac.state = "scanGo"
    /\ tasks' = [tasks EXCEPT !["count"] = Activate("Count", sac.countQuery, "g2")]
    /\ sac' = [sac EXCEPT !.state = "wait", !.started = @ \cup {"count"}]
    /\ UNCHANGED <<buildVars, db, op, stmts>>

\* ... each goroutine ends by recording its error under the lock (order is
\* the sequence of goroutines that recorded one), then wg.Done ...
GoExit(t) ==
    /\ sac.state \in {"scanGo", "wait"}
    /\ t \in sac.started \ sac.exited
    /\ tasks[t].pc = "done"
    /\ sac' = [sac EXCEPT
            !.count = IF t = "count" THEN tasks[t].n ELSE @,
            !.firstErr = IF tasks[t].err # NoErr THEN recordErr(@, tasks[t].err) ELSE @,
            !.order = IF tasks[t].err # NoErr THEN Append(@, t) ELSE @,
            !.exited = @ \cup {t}]
    /\ UNCHANGED <<buildVars, db, op, stmts, tasks>>

\* ... and wg.Wait, return count, firstErr.
SacWait ==
    /\ sac.state = "wait" /\ sac.exited = sac.started
    /\ sac' = [sac EXCEPT !.state = "done", !.err = sac.firstErr, !.n = sac.count]
    /\ UNCHANGED <<buildVars, db, op, stmts, tasks>>

\* scanAndCountSeq: the scan (unless the limit is negative), then the count.
SacSeq ==
    /\ sac.state = "start" /\ sacPath(heap[op.q]) = "seq"
    /\ IF scansRows(heap[op.q])
       THEN /\ tasks' = [tasks EXCEPT !["scan"] = Activate("Scan", op.q, "main")]
            /\ sac' = [sac EXCEPT !.state = "seqScan"]
       ELSE /\ tasks' = [tasks EXCEPT !["count"] = Activate("Count", op.q, "main")]
            /\ sac' = [sac EXCEPT !.state = "seqCount"]
    /\ UNCHANGED <<buildVars, db, op, stmts>>

SacSeqScanReturn ==
    /\ sac.state = "seqScan" /\ tasks["scan"].pc = "done"
    /\ tasks' = [tasks EXCEPT !["count"] = Activate("Count", op.q, "main")]
    /\ sac' = [sac EXCEPT !.state = "seqCount", !.firstErr = tasks["scan"].err]
    /\ UNCHANGED <<buildVars, db, op, stmts>>

SacSeqCountReturn ==
    /\ sac.state = "seqCount" /\ tasks["count"].pc = "done"
    /\ sac' = [sac EXCEPT
            !.state = "done", !.n = tasks["count"].n,
            !.firstErr = IF tasks["count"].err # NoErr /\ @ = NoErr
                         THEN tasks["count"].err ELSE @,
            !.err = IF tasks["count"].err # NoErr /\ sac.firstErr = NoErr
                    THEN tasks["count"].err ELSE sac.firstErr]
    /\ UNCHANGED <<buildVars, db, op, stmts, tasks>>

------------------------------------------------------------------------------
(* The execution specification: one terminal operation on a built query *)

Ops == Routines \cup {"ScanAndCount"}
Limits == {-1, 0, 1}
Offsets == {0, 1}
Conns == {NoConn, PinnedConn}
Errs == {NoErr, ErrNoJoins}
Rels == {<<>>, <<"Profile">>, <<"Items">>}
\* pgdialect.New declares SelectExists; "mssql" stands for a dialect that
\* does not.
ExecDialects == {"pg", "mssql"}
dialectFeatures(dialect) == IF dialect = "pg" THEN {"SelectExists"} ELSE {}

Conn(qr, c) == [qr EXCEPT !.conn = c]

\* NewSelect().Model(&u).Relation("Profile"): the sub-query of a WITH entry.
SubQuery == Relation(setModel(EmptyQuery), <<"Profile">>, NoFn)

\* NewSelect().Model(&u)[.Relation(rel)].Limit(l).Offset(o)[.Conn(c)]
\* [.JoinOn(...)][.With("cte", sub)]
MainQuery(rel, limit, offset, conn, err, with) ==
    LET q1 == setModel(EmptyQuery)
        q2 == IF rel = <<>> THEN q1 ELSE Relation(q1, rel, NoFn)
        q3 == Conn(setOffset(setLimit(q2, limit), offset), conn)
        q4 == IF err = NoErr THEN q3 ELSE setErr(q3, err)
    IN  IF with THEN addWith(q4, "cte", 2) ELSE q4

slotFor(name) ==
    CASE name = "Scan" -> "scan" [] name = "Count" -> "count" [] OTHER -> "op"

Init ==
    /\ \E rel \in Rels, limit \in Limits, offset \in Offsets, conn \in Conns,
          err \in Errs, with \in BOOLEAN :
            /\ heap = <<MainQuery(rel, limit, offset, conn, err, with)>>
                        \o (IF with THEN <<SubQuery>> ELSE <<>>)
            /\ joinArr = [i \in 1..Len(heap) |-> <<>>]
            /\ recorded = [i \in 1..Len(heap) |-> heap[i].err]
            /\ origin = [i \in 1..Len(heap) |-> 0]
    /\ nops = 0
    /\ db \in {NewDB(d, dialectFeatures(d), n) : d \in ExecDialects, n \in 0..MaxHooks}
    /\ op \in {[name |-> o, q |-> 1, dest |-> FALSE] : o \in Ops}
    /\ tasks = [t \in Slots |->
                    IF op.name # "ScanAndCount" /\ t = slotFor(op.name)
                    THEN Activate(op.name, op.q, "main") ELSE IdleTask]
    /\ sac = [NoSac EXCEPT !.state = IF op.name = "ScanAndCount" THEN "start" ELSE "idle"]
    /\ stmts = <<>>

Next ==
    \/ \E t \in Slots : Start(t)
    \/ \E t \in Slots : RenderBegin(t)
    \/ \E t \in Slots : RenderEnd(t)
    \/ \E t \in Slots : BeforeQuery(t)
    \/ \E t \in Slots : Send(t)
    \/ \E t \in Slots : Return(t)
    \/ \E t \in Slots : AfterQuery(t)
    \/ \E t \in Slots : SelectJoins(t)
    \/ \E t \in Slots : GoExit(t)
    \/ SacSingle \/ SacSingleReturn
    \/ SacClone \/ SacGoScan \/ SacGoCount \/ SacWait
    \/ SacSeq \/ SacSeqScanReturn \/ SacSeqCountReturn

Spec == Init /\ [][Next]_vars

-------------------------------------------------------------------------------
(* Model-level hooks over a slice of entities *)

MaxEntities == 3   \* elements of the slice a batch hook walks

ErrHookA == "hook error A"
ErrHookB == "hook error B"

\* What the hook of one entity returns.
HookErrs == {NoErr, ErrHookA, ErrHookB}

BeforeSliceHooks == {"BeforeInsert", "BeforeUpdate", "BeforeDelete"}
AfterSliceHooks == {"AfterSelect", "AfterInsert", "AfterUpdate", "AfterDelete"}

\* callBeforeInsertHookSlice, callAfterSelectHookSlice, ...: the loop each of
\* them hands its hook to.
hookSliceFn(name) ==
    IF name \in BeforeSliceHooks THEN "callHookSlice" ELSE "callHookSlice2"

\* A loop that keeps the error of the last failing entity.
keepLastErr(firstErr, err) == IF err # NoErr THEN err ELSE firstErr

\* if err != nil && firstErr == nil { firstErr = err }
keepFirstErr(firstErr, err) ==
    IF err # NoErr /\ firstErr = NoErr THEN err ELSE firstErr

\* The call of a batch hook: slice[i + 1] is what the hook returns for the
\* entity at index i; an invalid slice (the zero reflect.Value) has no entity.
HookSliceCall(name, valid, slice) ==
    [ name |-> name, fn |-> hookSliceFn(name), valid |-> valid, slice |-> slice,
      pc |-> "loop", i |-> 0, firstErr |-> NoErr, invoked |-> <<>>, err |-> NoErr ]

\* One iteration of the loop: the hook is called on slice.Index(i).
hookIteration(call) ==
    [call EXCEPT !.invoked = Append(@, call.i),
                 !.firstErr = keepFirstErr(@, call.slice[call.i + 1]),
                 !.i = @ + 1]

hookReturn(call) == [call EXCEPT !.pc = "returned", !.err = call.firstErr]

CallHookSliceStep ==
    /\ op.name \in BeforeSliceHooks /\ op.pc = "loop"
    /\ op.i < Len(op.slice)
    /\ op' = hookIteration(op)
    /\ UNCHANGED <<buildVars, db, tasks, stmts, sac>>

CallHookSliceReturn ==
    /\ op.name \in BeforeSliceHooks /\ op.pc = "loop"
    /\ ~(op.i < Len(op.slice))
    /\ op' = hookReturn(op)
    /\ UNCHANGED <<buildVars, db, tasks, stmts, sac>>

CallHookSlice2Step ==
    /\ op.name \in AfterSliceHooks /\ op.pc = "loop"
    /\ op.valid /\ op.i < Len(op.slice)
    /\ op' = hookIteration(op)
    /\ UNCHANGED <<buildVars, db, tasks, stmts, sac>>

CallHookSlice2Return ==
    /\ op.name \in AfterSliceHooks /\ op.pc = "loop"
    /\ ~(op.valid /\ op.i < Len(op.slice))
    /\ op' = hookReturn(op)
    /\ UNCHANGED <<buildVars, db, tasks, stmts, sac>>

Slices == UNION {[1..n -> HookErrs] : n \in 0..MaxEntities}

InitHooks ==
    /\ heap = <<EmptyQuery>>
    /\ joinArr = << <<>> >>
    /\ nops = 0
    /\ recorded = <<NoErr>>
    /\ origin = <<0>>
    /\ db = NewDB("pg", {}, 0)
    /\ op \in {HookSliceCall(name, TRUE, slice) :
                    name \in BeforeSliceHooks \cup AfterSliceHooks, slice \in Slices}
                \cup {HookSliceCall(name, FALSE, <<>>) : name \in AfterSliceHooks}
    /\ tasks = <<>>
    /\ stmts = <<>>
    /\ sac = NoSac

NextHooks ==
    \/ CallHookSliceStep \/ CallHookSliceReturn
    \/ CallHookSlice2Step \/ CallHookSlice2Return

SpecHooks == InitHooks /\ [][NextHooks]_vars

-------------------------------------------------------------------------------
(* The scan specification: Scan on a model with select hooks and relations *)

MaxRelations == 3  \* Relation calls on the scanned query

RelPaths ==
    { <<"Profile">>, <<"Owner">>, <<"Items">>, <<"Tags">>,
      <<"Profile", "Address">>, <<"Profile", "Pets">>,
      <<"Items", "Maker">>, <<"Items", "Parts">> }

\* The lists of distinct relation paths a caller asks for, in call order.
RelationLists ==
    UNION {{ps \in [1..n -> RelPaths] : \A i, j \in 1..n : ps[i] = ps[j] => i = j} :
                n \in 0..MaxRelations}

SelectHooks ==
    [BeforeSelect : {NotImplemented, NoErr, ErrBeforeSelect},
     AfterSelect : {NotImplemented, NoErr, ErrAfterSelect}]

RECURSIVE withRelations(_, _)
withRelations(qr, paths) ==
    IF paths = <<>> THEN qr
    ELSE withRelations(Relation(qr, Head(paths), NoFn), Tail(paths))

\* NewSelect().Model(&users).Relation(p1).Relation(p2)..., users of a type
\* with the given select hooks.
ScanQuery(paths, hooks) ==
    withRelations([EmptyQuery EXCEPT !.tableModel = [NewTableModel EXCEPT !.hooks = hooks]],
                  paths)

InitScan ==
    /\ \E paths \in RelationLists, hooks \in SelectHooks :
            heap = <<ScanQuery(paths, hooks)>>
    /\ joinArr = << <<>> >>
    /\ nops = 0
    /\ recorded = <<NoErr>>
    /\ origin = <<0>>
    /\ db = NewDB("pg", {}, 1)
    /\ op = [name |-> "Scan", q |-> 1, dest |-> FALSE]
    /\ tasks = [t \in Slots |->
                    IF t = slotFor(op.name) THEN Activate(op.name, op.q, "main")
                    ELSE IdleTask]
    /\ stmts = <<>>
    /\ sac = NoSac

NextScan ==
    \/ \E t \in Slots : Start(t)
    \/ \E t \in Slots : RenderBegin(t)
    \/ \E t \in Slots : RenderEnd(t)
    \/ \E t \in Slots : BeforeQuery(t)
    \/ \E t \in Slots : Send(t)
    \/ \E t \in Slots : Return(t)
    \/ \E t \in Slots : AfterQuery(t)
    \/ \E t \in Slots : SelectJoins(t)

SpecScan == InitScan /\ [][NextScan]_vars

------------------------------------------------------------------------------
(* The destination specification: Scan(ctx, &dest) on a model with relations *)

InitDest ==
    /\ \E paths \in RelationLists, hooks \in SelectHooks :
            heap = <<ScanQuery(paths, hooks)>>
    /\ joinArr = << <<>> >>
    /\ nops = 0
    /\ recorded = <<NoErr>>
    /\ origin = <<0>>
    /\ db = NewDB("pg", {}, 1)
    /\ op = [name |-> "Scan", q |-> 1, dest |-> TRUE]
    /\ tasks = [t \in Slots |->
                    IF t = slotFor(op.name) THEN Activate(op.name, op.q, "main")
                    ELSE IdleTask]
    /\ stmts = <<>>
    /\ sac = NoSac

SpecDest == InitDest /\ [][NextScan]_vars

------------------------------------------------------------------------------
(* Properties of the builder, the renderer and Clone (under SpecBuild) *)

\* C2: once a builder call has recorded an error on a query, the query and
\* every clone taken from it afterwards stay erred with that first error, and
\* rendering them returns that error and no SQL text.
C2_StickyError ==
    \A q \in QIds :
        recorded[q] # NoErr =>
            /\ heap[q].err = recorded[q]
            /\ renderOut(heap, joinArr, q) = [err |-> recorded[q], b |-> <<>>]

clauses(qr) == [qr EXCEPT !.tableModel = NoModel]

\* C4: two consecutive renders of a query, with no builder call in between,
\* return the same text and leave the query's clause lists as they were.
C4_RenderIdempotent ==
    \A q \in QIds :
        LET r1 == AppendQuery(heap, joinArr, q)
            r2 == AppendQuery(r1.h, joinArr, q)
        IN  /\ r2.err = r1.err
            /\ r2.b = r1.b
            /\ clauses(r1.h[q]) = clauses(heap[q])

apart(c, q) == c \notin Reach(heap, q) /\ q \notin Reach(heap, c)

\* The builder calls of the clause lists, the limits, the locking clause, the
\* set operations, the WITH entries and the index hints.
ClauseCall(q) ==
    \/ ColumnCall(q) \/ TableCall(q) \/ WhereCall(q) \/ JoinCall(q) \/ JoinOnCall(q)
    \/ GroupCall(q) \/ HavingCall(q) \/ OrderCall(q) \/ LimitCall(q) \/ OffsetCall(q)
    \/ ForCall(q) \/ DistinctCall(q) \/ DistinctOnCall(q) \/ UnionCall(q)
    \/ WithCall(q) \/ UseIndexCall(q)

\* C5: after c = q.Clone(), a builder call on c leaves what q renders
\* unchanged, and a builder call on q leaves what c renders unchanged (while
\* the caller has not itself made one of the two a sub-query of the other).
C5_CloneFrame ==
    [][\A c \in QIds :
        (origin[c] # 0 /\ apart(c, origin[c])) =>
            /\ ClauseCall(c) =>
                    renderOut(heap', joinArr', origin[c])
                        = renderOut(heap, joinArr, origin[c])
            /\ ClauseCall(origin[c]) =>
                    renderOut(heap', joinArr', c) = renderOut(heap, joinArr, c)]_vars

\* A clone and its original, each changed by a builder call after the Clone.
C5_Witness ==
    \E c \in QIds :
        /\ origin[c] # 0
        /\ heap[c].where # <<>> /\ heap[origin[c]].where = <<>>
        /\ heap[origin[c]].group.elems # <<>> /\ heap[c].group.elems = <<>>

\* C6: a clone renders the statement its original renders at the moment of
\* cloning (stated for the queries that render without error).
C6_CloneRendersSame ==
    \A q \in QIds :
        LET r == Clone(heap, joinArr, q)
        IN  renderOut(heap, joinArr, q).err = NoErr =>
                renderOut(r.h, r.ja, r.id) = renderOut(heap, joinArr, q)

\* C7: no mutable query object (and no join array) is reachable from both a
\* query and the clone just taken from it.
C7_CloneDisjoint ==
    \A q \in QIds :
        LET r == Clone(heap, joinArr, q)
        IN  /\ Reach(r.h, r.id) \cap Reach(r.h, q) = {}
            /\ r.h[r.id].joins # r.h[q].joins

------------------------------------------------------------------------------
(* Properties of statement execution and ScanAndCount (under Spec) *)

Statements == DOMAIN stmts
limited(qr) == qr.limit # 0 \/ qr.offset # 0
isSac == op.name = "ScanAndCount"

\* C1: every statement calls BeforeQuery on the hooks in registration order
\* before it runs and, once it has run, AfterQuery on them in reverse order,
\* each hook once per phase and always with the statement's one event.
C1_HookOrder ==
    \A i \in Statements :
        LET s == stmts[i]
            hs == db.queryHooks
            n == Len(hs)
        IN  /\ n > 0 => s.event = i
            /\ Len(s.calls) = IF s.state = "done" THEN 2 * n ELSE n
            /\ \A k \in 1..n :
                    s.calls[k] = [phase |-> "before", hook |-> hs[k], ev |-> s.event]
            /\ s.state = "done" =>
                    \A k \in 1..n :
                        s.calls[n + k] =
                            [phase |-> "after", hook |-> hs[n - k + 1], ev |-> s.event]

\* C1 witness: a statement has run to the end of its after phase on a DB with
\* at least two hooks.
C1_Witness ==
    \E i \in Statements :
        stmts[i].state = "done" /\ Len(db.queryHooks) >= 2 /\ stmts[i].err # NoErr

\* C3: a terminal operation on an erred query sends no statement, fires no
\* hook, leaves the query counter alone and returns the recorded error.
C3_ErredDoesNothing ==
    recorded[op.q] # NoErr =>
        /\ stmts = <<>>
        /\ db.stats.Queries = 0
        /\ sac.state = "done" => sac.err = recorded[op.q]
        /\ \A t \in Slots : tasks[t].pc = "done" /\ tasks[t].q = op.q =>
                                tasks[t].err = recorded[op.q]

conflict(t, u) == tasks[t].writes \cap (tasks[u].reads \cup tasks[u].writes) # {}

\* C8: in the concurrent path the count query is a clone taken before either
\* goroutine starts, and no object one goroutine writes is read or written
\* by the other.
C8_NoSharedState ==
    /\ sac.started # {} => sac.countQuery # 0 /\ sac.countQuery # op.q
    /\ \A t, u \in Slots :
            (tasks[t].go # tasks[u].go /\ tasks[t].go # "none" /\ tasks[u].go # "none")
                => ~conflict(t, u)

concurrentCase == isSac /\ limited(heap[op.q]) /\ heap[op.q].conn = NoConn

firstRecorded ==
    /\ sac.exited = sac.started
    /\ \A t \in sac.started :
            tasks[t].go # "main" /\ \A u \in sac.started \ {t} : tasks[u].go # tasks[t].go
    /\ \A t \in sac.started : tasks[t].pc = "done"
    /\ sac.err = NoErr <=> \A t \in sac.started : tasks[t].err = NoErr
    /\ sac.err # NoErr => sac.order # <<>> /\ sac.err = tasks[sac.order[1]].err

\* C9 as stated: limit or offset set and no pinned connection: two tasks, each
\* on a goroutine of its own, both finished at the return; the error is nil iff both succeeded and else the
\* first one recorded.
C9_TwoTasks ==
    (concurrentCase /\ sac.state = "done") =>
        sac.started = {"scan", "count"} /\ firstRecorded

\* C9 amended: the scan task is started only when the limit is not negative;
\* with a negative limit the count task runs alone.  The return waits for every
\* started task; the error is nil iff all of them succeeded and else the first
\* one recorded.
C9_StartedTasks ==
    (concurrentCase /\ sac.state = "done") =>
        /\ sac.started = IF heap[op.q].limit >= 0 THEN {"scan", "count"} ELSE {"count"}
        /\ firstRecorded

\* C9 witness: both tasks failed with different errors and the call returned.
C9_Witness ==
    /\ concurrentCase /\ sac.state = "done"
    /\ Len(sac.order) = 2
    /\ tasks["scan"].err # tasks["count"].err

pinnedCase == isSac /\ limited(heap[op.q]) /\ heap[op.q].conn = PinnedConn

\* C10: limit or offset set and a pinned connection: at most one statement is
\* between its before and after phase, the count statement starts after the
\* scan and its follow-ups are over, every statement is on the pinned
\* connection and the scan's error comes before the count's.
C10_Sequential ==
    pinnedCase =>
        /\ Cardinality({i \in Statements : stmts[i].state # "done"}) <= 1
        /\ \A i \in Statements :
                /\ stmts[i].conn = PinnedConn
                /\ stmts[i].kind = "count" =>
                        /\ tasks["scan"].pc \in {"idle", "done"}
                        /\ \A j \in 1..(i - 1) : stmts[j].state = "done"
        /\ sac.state = "done" =>
                sac.err = IF tasks["scan"].err # NoErr THEN tasks["scan"].err
                          ELSE tasks["count"].err

\* C10 witness: a follow-up statement of the scan failed, then the count
\* failed with another error, and the call returned.
C10_Witness ==
    /\ pinnedCase /\ sac.state = "done"
    /\ \E i \in Statements : stmts[i].kind = "followup" /\ stmts[i].err # NoErr
    /\ tasks["count"].err \notin {NoErr, tasks["scan"].err}

\* C11: with neither limit nor offset ScanAndCount sends no count statement
\* and at most one primary statement, and returns that statement's affected
\* rows as the count, or the scan's error and count 0.
C11_SingleStatement ==
    (isSac /\ ~limited(heap[op.q])) =>
        /\ \A i \in Statements : stmts[i].kind # "count"
        /\ Cardinality({i \in Statements : stmts[i].kind = "select"}) <= 1
        /\ tasks["count"].pc = "idle"
        /\ sac.state = "done" =>
                IF tasks["scan"].err = NoErr
                THEN /\ sac.err = NoErr
                     /\ \E i \in Statements :
                            stmts[i].kind = "select" /\ sac.n = stmts[i].n
                ELSE sac.err = tasks["scan"].err /\ sac.n = 0

\* C11 witness: the call returned a count of one row from its one statement.
C11_Witness ==
    /\ isSac /\ ~limited(heap[op.q]) /\ sac.state = "done"
    /\ sac.err = NoErr /\ sac.n = 1 /\ Len(stmts) = 1

\* C12: a statement whose before phase ran gets its after phase whatever the
\* adapter answers: until then its operation is still inside the pipeline, and
\* afterwards every hook has had AfterQuery with event.Err the adapter's error,
\* and an error is what the operation returned.
C12_AfterPhaseRuns ==
    \A i \in Statements :
        LET s == stmts[i]
            task == tasks[s.task]
        IN  /\ s.state # "done" =>
                    task.stmt = i /\ task.pc \in {"send", "wait", "after"}
            /\ s.state = "done" =>
                    /\ {c.hook : c \in {s.calls[k] : k \in 1..Len(s.calls)} \cap
                                        [phase : {"after"}, hook : 1..Len(db.queryHooks),
                                         ev : {s.event}]}
                            = 1..Len(db.queryHooks)
                    /\ s.event # 0 => s.evErr = s.err
                    /\ s.err # NoErr => task.pc = "done" /\ task.err = s.err

\* C12 witness: the adapter failed a statement on a DB with hooks and the
\* operation has returned.
C12_Witness ==
    \E i \in Statements :
        /\ stmts[i].state = "done" /\ stmts[i].err = ErrExec
        /\ Len(db.queryHooks) >= 1 /\ tasks[stmts[i].task].pc = "done"

\* C13: the query counter counts the beforeQuery calls and the error counter
\* the afterQuery calls whose error is neither nil nor no-rows, with or without
\* hooks; with no hook there is no event and no hook call; the error counter
\* never exceeds the query counter.
C13_Counters ==
    /\ db.stats.Queries = Len(stmts)
    /\ db.stats.Errors =
            Cardinality({i \in Statements :
                            stmts[i].state = "done" /\ stmts[i].err \notin {NoErr, ErrNoRows}})
    /\ Len(db.queryHooks) = 0 =>
            \A i \in Statements : stmts[i].event = 0 /\ stmts[i].calls = <<>>
    /\ db.stats.Errors <= db.stats.Queries

\* C13 witness: with no hook registered, a statement ended in no-rows and
\* another in an adapter error.
C13_Witness ==
    /\ Len(db.queryHooks) = 0 /\ db.stats.Queries = 2 /\ db.stats.Errors = 1
    /\ \E i \in Statements : stmts[i].state = "done" /\ stmts[i].err = ErrNoRows

failing(slice) == {j \in 0..(Len(slice) - 1) : slice[j + 1] # NoErr}
lowest(S) == CHOOSE j \in S : \A k \in S : j <= k
firstFailure(slice) == IF failing(slice) = {} THEN NoErr ELSE slice[lowest(failing(slice)) + 1]

\* C14: a before* batch hook is not invoked for any entity after one for
\* which it returned an error, and returns that error.
C14_BeforeStopsAtFirstError ==
    op.name \in BeforeSliceHooks =>
        /\ \A k \in 1..Len(op.invoked) :
                \A j \in 0..(op.invoked[k] - 1) : op.slice[j + 1] = NoErr
        /\ op.pc = "returned" => op.err = firstFailure(op.slice)

\* C15: an after* batch hook is invoked once for every entity of the slice in
\* index order whatever the hook returns, and returns the error of the
\* lowest-indexed failing entity or nil; an invalid slice gives nil and no
\* invocation.
C15_AfterRunsToCompletion ==
    op.name \in AfterSliceHooks =>
        /\ op.invoked = [k \in 1..Len(op.invoked) |-> k - 1]
        /\ op.pc = "returned" =>
                /\ Len(op.invoked) = Len(op.slice)
                /\ op.err = firstFailure(op.slice)
                /\ ~op.valid => op.invoked = <<>> /\ op.err = NoErr

\* C15 witness: the hook failed for the first two of three entities, with
\* different errors, and the call has returned.
C15_Witness ==
    /\ op.name = "AfterInsert" /\ op.pc = "returned"
    /\ op.slice = <<ErrHookA, ErrHookB, NoErr>>
    /\ op.invoked = <<0, 1, 2>> /\ op.err = ErrHookA

RECURSIVE declares(_, _)
declares(model, path) ==
    \/ path = <<>>
    \/ /\ schemaRelation(model, Head(path)) # NoRelation
       /\ declares(schemaRelation(model, Head(path)).model, Tail(path))

\* What a Relation or RelationWithOpts call with these arguments leaves of qr.
relationResults(qr, path) ==
    {Relation(qr, path, fn) : fn \in FnArgs}
    \cup {RelationWithOpts(qr, path, fn, addOn) : fn \in FnArgs, addOn \in AddOnArgs}

-------------------------------------------------------------------------------
(* Properties of the scan and the relation graph (under SpecScan) *)

\* The joins of a relation graph by index path: <<2, 1>> is the first join
\* below the second join of the root.
RECURSIVE joinAt(_, _)
joinAt(joins, p) ==
    IF Len(p) = 1 THEN joins[p[1]] ELSE joinAt(joins[p[1]].joins, Tail(p))

\* The paths whose proper prefixes are all to-one joins.
RECURSIVE reachPaths(_)
reachPaths(joins) ==
    UNION {{<<i>>} \cup (IF joins[i].type \in ToOne
                         THEN {<<i>> \o p : p \in reachPaths(joins[i].joins)}
                         ELSE {}) : i \in DOMAIN joins}

inlinePaths(joins) == {p \in reachPaths(joins) : joinAt(joins, p).type \in ToOne}
deferredPaths(joins) ==
    {p \in reachPaths(joins) :
        joinAt(joins, p).type \in {HasManyRelation, ManyToManyRelation}}

\* Depth-first pre-order on index paths: a join before the joins below it,
\* and those before its next sibling.
precedes(p, q) ==
    \/ Len(p) < Len(q) /\ SubSeq(q, 1, Len(p)) = p
    \/ \E k \in 1..Len(p) :
            /\ k <= Len(q) /\ p[k] < q[k]
            /\ \A m \in 1..(k - 1) : p[m] = q[m]

RECURSIVE inOrder(_)
inOrder(S) ==
    IF S = {} THEN <<>>
    ELSE LET p == CHOOSE x \in S : \A y \in S \ {x} : precedes(x, y)
         IN  <<p>> \o inOrder(S \ {p})

namesAt(joins, ps) == [k \in 1..Len(ps) |-> joinAt(joins, ps[k]).name]

isPrefix(a, b) == Len(a) <= Len(b) /\ SubSeq(b, 1, Len(a)) = a

\* The aliases of the LEFT JOIN clauses of a statement, in text order.
RECURSIVE joinedNames(_)
joinedNames(text) ==
    IF text = <<>> THEN <<>>
    ELSE (IF Head(text) = "LEFT JOIN " THEN <<text[4]>> ELSE <<>>) \o joinedNames(Tail(text))

scanned == heap[op.q].tableModel
scanTask == tasks["scan"]
primaries == {i \in Statements : stmts[i].kind = "select"}
followups == {i \in Statements : stmts[i].kind = "followup"}

\* The relations of the follow-up statements, in the order they were issued.
RECURSIVE followupNames(_)
followupNames(ss) ==
    IF ss = <<>> THEN <<>>
    ELSE (IF Head(ss).kind = "followup" THEN <<Head(ss).text[4]>> ELSE <<>>)
         \o followupNames(Tail(ss))

\* C16: after a primary scan that affected zero rows no follow-up statement
\* is issued, whatever the relation graph; the scan goes on to the
\* AfterSelect hook and returns the result (or the hook's error).
C16_NoRowsNoFollowups ==
    \A i \in primaries :
        (stmts[i].state = "done" /\ stmts[i].err = NoErr /\ stmts[i].n = 0) =>
            /\ followups = {}
            /\ scanTask.pc \in {"joins", "done"}
            /\ scanTask.pc = "done" =>
                    LET h == scanned.hooks.AfterSelect
                    IN  /\ h # NotImplemented =>
                                scanTask.log[Len(scanTask.log)] = [step |-> "AfterSelect", err |-> h]
                        /\ scanTask.err = (IF h = NotImplemented THEN NoErr ELSE h)
                        /\ scanTask.n = 0

\* C16 witness: a scan of a model with deferred joins affected no row, called
\* the AfterSelect hook and returned.
C16_Witness ==
    /\ scanTask.pc = "done" /\ scanTask.err = NoErr
    /\ Len(stmts) = 1 /\ stmts[1].err = NoErr /\ stmts[1].n = 0
    /\ Cardinality(deferredPaths(scanned.joins)) >= 2
    /\ scanned.hooks.AfterSelect = NoErr

\* C17: the follow-up statements are issued after the primary scan returned
\* at least one row, one for each has-many or many-to-many join of the root or
\* below to-one joins, in depth-first declaration order; to-one joins and
\* joins below a deferred join get none; a failing follow-up is the last one
\* and its error is returned.
C17_FollowupPerDeferredJoin ==
    LET expected == namesAt(scanned.joins, inOrder(deferredPaths(scanned.joins)))
        issued == followupNames(stmts)
    IN  /\ isPrefix(issued, expected)
        /\ \A i \in followups :
                /\ \E j \in primaries :
                        /\ j < i /\ stmts[j].state = "done"
                        /\ stmts[j].err = NoErr /\ stmts[j].n > 0
                /\ (stmts[i].state = "done" /\ stmts[i].err # NoErr) =>
                        /\ i = Len(stmts)
                        /\ scanTask.pc = "done" /\ scanTask.err = stmts[i].err
        /\ ( /\ scanTask.pc = "done"
             /\ \A i \in Statements : stmts[i].err = NoErr
             /\ \E j \in primaries : stmts[j].n > 0 ) => issued = expected

\* C17 witness: a scan over a has-many join below a to-one join, a to-one
\* join and a many-to-many join returned after its two follow-ups.
C17_Witness ==
    /\ scanTask.pc = "done" /\ scanTask.err = NoErr
    /\ followupNames(stmts) = <<"Pets", "Tags">>
    /\ Len(forEachInlineRelJoin(scanned.joins)) = 2

\* C18: the walk over the inline joins visits the joins reachable from the
\* root through to-one joins only that are to-one themselves, each once, in
\* depth-first pre-order, and these are the joins of the primary statement; a
\* to-many join and the joins below it are not among them.
C18_InlineToOnePreOrder ==
    LET expected == inOrder(inlinePaths(scanned.joins))
    IN  /\ forEachInlineRelJoin(scanned.joins)
                = [k \in 1..Len(expected) |-> joinAt(scanned.joins, expected[k])]
        /\ \A i \in primaries :
                joinedNames(stmts[i].text) = namesAt(scanned.joins, expected)

\* C18 witness: a primary statement over a to-one join with a to-one join
\* below it, a has-many join with a to-one join below it, and a second to-one
\* join of the root.
C18_Witness ==
    /\ \E i \in primaries : joinedNames(stmts[i].text) = <<"Profile", "Address", "Owner">>
    /\ Len(scanned.joins) = 3
    /\ scanned.joins[2].type = HasManyRelation /\ scanned.joins[2].joins # <<>>

\* The steps of a whole scan, given the number of its follow-ups.
lifecycle(hooks, nf) ==
    (IF hooks.BeforeSelect = NotImplemented THEN <<>> ELSE <<"BeforeSelect">>)
    \o <<"render", "primary">> \o [k \in 1..nf |-> "followup"]
    \o (IF hooks.AfterSelect = NotImplemented THEN <<>> ELSE <<"AfterSelect">>)

\* C20: the steps of a scan come in the order BeforeSelect hook, render,
\* primary statement, follow-ups, AfterSelect hook, return; a step that fails
\* is the last one and its error is returned; no statement exists outside its
\* step, so that a failing BeforeSelect hook means no statement and the
\* AfterSelect hook runs only after every statement succeeded.
C20_ScanLifecycle ==
    LET log == scanTask.log
        steps == [k \in 1..Len(log) |-> log[k].step]
        nf == IF \E j \in primaries : stmts[j].state = "done" /\ stmts[j].n > 0
              THEN Cardinality(deferredPaths(scanned.joins)) ELSE 0
        inPipeline == IF scanTask.pc \in {"send", "wait", "after"} THEN 1 ELSE 0
    IN  /\ isPrefix(steps, lifecycle(scanned.hooks, nf))
        /\ \A k \in 1..(Len(log) - 1) : log[k].err = NoErr
        /\ (Len(log) > 0 /\ log[Len(log)].err # NoErr) =>
                scanTask.pc = "done" /\ scanTask.err = log[Len(log)].err
        /\ Len(stmts) = inPipeline
                + Cardinality({k \in 1..Len(log) : log[k].step \in {"primary", "followup"}})
        /\ (Len(log) > 0 /\ log[1] = [step |-> "BeforeSelect", err |-> ErrBeforeSelect]) =>
                stmts = <<>>
        /\ scanTask.pc = "done" =>
                IF scanTask.err = NoErr
                THEN steps = lifecycle(scanned.hooks, nf)
                ELSE Len(log) > 0 /\ log[Len(log)].err = scanTask.err

\* C20 witness: a scan that went through all five steps and returned.
C20_Witness ==
    /\ scanTask.pc = "done" /\ scanTask.err = NoErr
    /\ [k \in 1..Len(scanTask.log) |-> scanTask.log[k].step]
            = <<"BeforeSelect", "render", "primary", "followup", "AfterSelect">>

-------------------------------------------------------------------------------
(* Properties of the derived statements *)

\* C21: no step of Count or Exists changes a field of a query object, so
\* that the original renders afterwards as it did before.
C21_CountExistsFrame ==
    [][op.name \in {"Count", "Exists"} => (heap' = heap /\ joinArr' = joinArr)]_vars

existsOpen == IF "SelectExists" \in db.features THEN "SELECT EXISTS (" ELSE "SELECT 1 WHERE EXISTS ("

\* C22: the statement of Exists is the base statement inside SELECT EXISTS
\* ( ... ) when the dialect has the SelectExists feature and inside SELECT 1
\* WHERE EXISTS ( ... ) when it has not, and nothing else; PostgreSQL has the
\* feature.
C22_ExistsForm ==
    op.name = "Exists" =>
        /\ \A i \in Statements :
                /\ stmts[i].text[1] = existsOpen
                /\ stmts[i].text[Len(stmts[i].text)] = ")"
                /\ db.dialect = "pg" => stmts[i].text[1] = "SELECT EXISTS ("
        /\ \A t \in Slots :
                tasks[t].pc = "rendering" =>
                    renderAs(kindFor(tasks[t].routine), tasks[t].snap, joinArr, tasks[t].q).b
                        = <<existsOpen>>
                          \o appendQuery(tasks[t].snap, joinArr, tasks[t].q, FALSE).b
                          \o <<")">>

\* C22 witness: Exists on a dialect without the feature sent the fallback form.
C22_Witness ==
    /\ op.name = "Exists" /\ db.dialect # "pg"
    /\ \E i \in Statements :
            stmts[i].state = "done" /\ stmts[i].text[1] = "SELECT 1 WHERE EXISTS ("

countWrapped(b) == b # <<>> /\ b[1] = "WITH _count_wrapper AS ("

\* C24: the count statement of a query is wrapped in the _count_wrapper
\* common table expression iff the query has a GROUP BY expression or a
\* DISTINCT ON list; plain DISTINCT alone gives an unwrapped SELECT count(*).
C24_CountWrapperIff ==
    \A q \in QIds :
        LET r == countAppendQuery(heap, joinArr, q)
        IN  r.err = NoErr =>
                (countWrapped(r.b) <=>
                    (Len(heap[q].group.elems) > 0 \/ Len(heap[q].distinctOn.elems) > 0))

\* The query without its ORDER BY, LIMIT, OFFSET and FOR clauses.
untailed(qr) == [qr EXCEPT !.order = NilSlice, !.limit = 0, !.offset = 0, !.selFor = ""]

\* C25: the count statement of a query with a GROUP BY clause is the grouped
\* select (columns, FROM, joins, WHERE, GROUP BY, HAVING) without the query's
\* ORDER BY, LIMIT/OFFSET and FOR clauses, inside WITH _count_wrapper AS ( ...
\* ) SELECT count(*) FROM _count_wrapper: it counts groups, whatever the limit
\* and offset.
C25_CountOfGroups ==
    \A q \in QIds :
        LET r == countAppendQuery(heap, joinArr, q)
        IN  (Len(heap[q].group.elems) > 0 /\ r.err = NoErr) =>
                r.b = <<"WITH _count_wrapper AS (">>
                      \o appendQuery([heap EXCEPT ![q] = untailed(@)], joinArr, q, FALSE).b
                      \o <<") SELECT count(*) FROM _count_wrapper">>

\* C25 witness: a grouped query with a limit, whose count statement has the
\* GROUP BY clause inside the wrapper.
C25_Witness ==
    \E q \in QIds :
        /\ Len(heap[q].group.elems) > 0 /\ heap[q].limit > 0
        /\ countWrapped(countAppendQuery(heap, joinArr, q).b)
        /\ \E k \in 1..Len(countAppendQuery(heap, joinArr, q).b) :
                countAppendQuery(heap, joinArr, q).b[k] = " GROUP BY "

clauseRank(token) ==
    CASE token = "SELECT " -> 1 [] token = " FROM " -> 2 [] token = "LEFT JOIN " -> 3
      [] token = " ON " -> 4 [] token = " WHERE " -> 5 [] token = " GROUP BY " -> 6
      [] token = " HAVING " -> 7 [] token = " ORDER BY " -> 8 [] token = " LIMIT " -> 9
      [] token = " OFFSET " -> 10 [] token = " FOR " -> 11 [] OTHER -> 0

\* The ranks of the clause keywords of a text, in text order.
RECURSIVE clauseRanks(_)
clauseRanks(b) ==
    IF b = <<>> THEN <<>>
    ELSE (IF clauseRank(Head(b)) > 0 THEN <<clauseRank(Head(b))>> ELSE <<>>)
         \o clauseRanks(Tail(b))

\* C26: a render starts with the comment, then the WITH clause, then the open
\* parenthesis of a set operation, then SELECT; the clauses of the select
\* follow in the order FROM, inlined joins, explicit joins, WHERE, GROUP BY,
\* HAVING, ORDER BY, LIMIT, OFFSET, FOR.
C26_ClauseOrder ==
    \A q \in QIds :
        LET r == AppendQuery(heap, joinArr, q)
            w == appendWith(heap, joinArr, q, 1)
            ranks == clauseRanks(r.b)
        IN  r.err = NoErr =>
                /\ isPrefix(appendComment(heap[q].comment) \o w.b
                            \o (IF Len(heap[q].union) > 0 THEN <<"(">> ELSE <<>>)
                            \o <<"SELECT ">>, r.b)
                /\ (heap[q].with = <<>> /\ heap[q].union = <<>>) =>
                        \A k \in 1..(Len(ranks) - 1) : ranks[k] <= ranks[k + 1]

\* The count statement of scanAndCountConcurrently: rendered from the clone
\* taken on entry.
countTextConcurrent(h, ja, q) ==
    LET c == Clone(h, ja, q)
        r == countAppendQuery(c.h, c.ja, c.id)
    IN  [err |-> r.err, b |-> r.b]

\* The count statement of scanAndCountSeq: rendered from q itself, after the
\* scan (when the limit is not negative) has rendered q.
countTextSeq(h, ja, q) ==
    LET scan == AppendQuery(h, ja, q)
        h1 == IF h[q].limit >= 0 /\ scan.err = NoErr THEN scan.h ELSE h
        r == countAppendQuery(h1, ja, q)
    IN  [err |-> r.err, b |-> r.b]

\* C27: for a query with a limit or an offset, the count statement of
\* ScanAndCount is the same text on the concurrent path and on the sequential
\* path.
C27_SameCountText ==
    \A q \in QIds :
        (limited(heap[q]) /\ heap[q].err = NoErr) =>
            countTextConcurrent(heap, joinArr, q) = countTextSeq(heap, joinArr, q)

\* C28: RelationWithOpts(name, opts) with no Apply function and no additional
\* join condition leaves the query as Relation(name) with no apply function
\* leaves it, the join's closure with the relation's static conditions
\* included, so that both render the same statement.
C28_RelationWithOptsSameAsRelation ==
    \A q \in QIds, path \in RelationArgs :
        LET a == Relation(heap[q], path, NoFn)
            b == RelationWithOpts(heap[q], path, NoFn, <<>>)
        IN  /\ a = b
            /\ renderOut([heap EXCEPT ![q] = a], joinArr, q)
                    = renderOut([heap EXCEPT ![q] = b], joinArr, q)

\* C29: ScanAndCount of a query with a negative limit does not scan, on the
\* goroutine path and on the sequential path alike: the scan is never started, so
\* the destination is not written, every statement is a count statement, and
\* the call returns the count and the error of the count.
C29_NegativeLimitCountsOnly ==
    (isSac /\ heap[op.q].limit < 0) =>
        /\ tasks["scan"] = IdleTask
        /\ "scan" \notin sac.started
        /\ \A i \in Statements : stmts[i].kind = "count"
        /\ sac.state = "done" =>
                /\ tasks["count"].pc = "done"
                /\ sac.n = tasks["count"].n
                /\ sac.err = tasks["count"].err
                /\ sac.err = NoErr => Len(stmts) = 1

\* C29 witness: ScanAndCount with Limit(-1) of a query with a has-many relation
\* returned, on goroutines, after its one count statement.
C29_Witness ==
    /\ isSac /\ heap[op.q].limit < 0 /\ heap[op.q].conn = NoConn
    /\ selectJoins(heap[op.q].tableModel.joins) # <<>>
    /\ sac.state = "done" /\ sac.err = NoErr
    /\ Len(stmts) = 1 /\ stmts[1].state = "done"

\* C29 witness on the pinned connection.
C29_WitnessSeq ==
    /\ isSac /\ heap[op.q].limit < 0 /\ heap[op.q].conn = PinnedConn
    /\ sac.state = "done" /\ sac.err = NoErr
    /\ Len(stmts) = 1 /\ stmts[1].state = "done"

\* The relation joins of has-many or many-to-many type added to the query,
\* at the root or beneath other joins.
RECURSIVE toManyJoins(_)
toManyJoins(joins) ==
    UNION {(IF joins[i].type \in {HasManyRelation, ManyToManyRelation}
            THEN {joins[i].name} ELSE {}) \cup toManyJoins(joins[i].joins) :
                i \in DOMAIN joins}

\* C30: a Scan with a destination on a query to which a has-many or a
\* many-to-many relation was added, at the root or beneath a to-one relation,
\* ends with the destination error before the BeforeSelect hook is called and
\* before a statement is rendered or sent.
C30_DestWithToManyRejected ==
    (op.dest /\ heap[op.q].err = NoErr
            /\ toManyJoins(heap[op.q].tableModel.joins) # {}) =>
        /\ scanTask.pc \in {"start", "done"}
        /\ scanTask.pc = "done" => scanTask.err = ErrDestToMany
        /\ scanTask.log = <<>>
        /\ stmts = <<>>

------------------------------------------------------------------------------
(* pgdialect: unsigned integers.  A uint32 is two and a uint64 four 16-bit    *)
(* limbs, most significant first; a signed integer is a sign and the limbs   *)
(* of its magnitude; a byte slice is a sequence of characters.               *)

\* 2^16, the size of a limb: a uint32 is two limbs wide, a uint64 four.
Base == 65536
\* 2^15, the sign bit of the most significant limb (int32(n), int64(n)).
HalfBase == 32768
DigitChars == <<"0", "1", "2", "3", "4", "5", "6", "7", "8", "9">>

isZero(x) == \A i \in DOMAIN x : x[i] = 0

\* ^x + 1 on the limbs: the two's complement of x.
twosComplement(x) ==
    [i \in DOMAIN x |->
        IF \A j \in (i + 1)..Len(x) : x[j] = 0
        THEN (Base - x[i]) % Base
        ELSE Base - 1 - x[i]]

\* A conversion that kept the unsigned value.
keepUnsigned(n) == [neg |-> FALSE, mag |-> n]

\* int32(n) of a uint32, int64(n) of a uint64: the same bits read as a signed
\* integer of the same width.
signed(n) ==
    IF n[1] >= HalfBase THEN [neg |-> TRUE, mag |-> twosComplement(n)]
    ELSE [neg |-> FALSE, mag |-> n]

\* int64(v) of an int32: the same value in four limbs.
int64(v) == [v EXCEPT !.mag = <<0, 0>> \o @]

\* x / 10 and x % 10 by long division.
divMod10(x) ==
    LET r[i \in 0..Len(x)] == IF i = 0 THEN 0 ELSE (r[i - 1] * Base + x[i]) % 10
    IN  [quo |-> [i \in DOMAIN x |-> (r[i - 1] * Base + x[i]) \div 10],
         rem |-> r[Len(x)]]

\* The decimal digits of a magnitude, most significant first; none for zero.
RECURSIVE formatBits(_)
formatBits(x) ==
    IF isZero(x) THEN <<>>
    ELSE LET d == divMod10(x)
         IN  Append(formatBits(d.quo), DigitChars[d.rem + 1])

\* strconv.AppendInt(b, v, 10)
AppendInt(b, v) ==
    b \o (IF v.neg THEN <<"-">> ELSE <<>>)
      \o (IF isZero(v.mag) THEN <<"0">> ELSE formatBits(v.mag))

AppendUint32(b, n) == AppendInt(b, int64(signed(n)))

AppendUint64(b, n) == AppendInt(b, signed(n))

\* The unsigned integers the dialect is asked to render: the limbs around the
\* sign bit and at both ends of the range.
TopLimbs == {0, 1, HalfBase - 1, HalfBase, Base - 1}
LowLimbs == {0, 1, Base - 1}
MidLimbs == {0, Base - 1}
Uint32s == {<<a, b>> : a \in TopLimbs, b \in TopLimbs}
Uint64s == {<<a, b, c, d>> : a \in TopLimbs, b \in MidLimbs, c \in MidLimbs, d \in LowLimbs}

\* Two values to render one after the other, each into an empty slice.
UintCall(name, n, m) == [name |-> name, args |-> <<n, m>>, out |-> <<>>]

AppendUint32Call ==
    /\ op.name = "AppendUint32" /\ Len(op.out) < Len(op.args)
    /\ op' = [op EXCEPT !.out = Append(@, AppendUint32(<<>>, op.args[Len(op.out) + 1]))]
    /\ UNCHANGED <<buildVars, db, tasks, stmts, sac>>

AppendUint64Call ==
    /\ op.name = "AppendUint64" /\ Len(op.out) < Len(op.args)
    /\ op' = [op EXCEPT !.out = Append(@, AppendUint64(<<>>, op.args[Len(op.out) + 1]))]
    /\ UNCHANGED <<buildVars, db, tasks, stmts, sac>>

InitUint ==
    /\ heap = <<EmptyQuery>>
    /\ joinArr = << <<>> >>
    /\ nops = 0
    /\ recorded = <<NoErr>>
    /\ origin = <<0>>
    /\ db = NewDB("pg", dialectFeatures("pg"), 0)
    /\ op \in {UintCall("AppendUint32", n, m) : n \in Uint32s, m \in Uint32s}
                \cup {UintCall("AppendUint64", n, m) : n \in Uint64s, m \in Uint64s}
    /\ tasks = <<>>
    /\ stmts = <<>>
    /\ sac = NoSac

NextUint == AppendUint32Call \/ AppendUint64Call

SpecUint == InitUint /\ [][NextUint]_vars

\* Reading a rendered integer back: the sign, and the magnitude in four limbs
\* by mag * 10 + digit over the digits.
digitOf(c) == CHOOSE d \in 0..9 : DigitChars[d + 1] = c

mulAdd10(x, d) ==
    LET c[i \in 1..(Len(x) + 1)] ==
            IF i = Len(x) + 1 THEN d ELSE (x[i] * 10 + c[i + 1]) \div Base
    IN  [i \in DOMAIN x |-> (x[i] * 10 + c[i + 1]) % Base]

RECURSIVE magnitudeOf(_)
magnitudeOf(digits) ==
    IF digits = <<>> THEN <<0, 0, 0, 0>>
    ELSE mulAdd10(magnitudeOf(SubSeq(digits, 1, Len(digits) - 1)),
                  digitOf(digits[Len(digits)]))

isNumber(text) ==
    /\ text # <<>>
    /\ \A i \in DOMAIN text : text[i] \in {DigitChars[k] : k \in 1..10} \/ (i = 1 /\ text[i] = "-")
    /\ text # <<"-">>

readInt(text) ==
    IF text[1] = "-" THEN [neg |-> TRUE, mag |-> magnitudeOf(Tail(text))]
    ELSE [neg |-> FALSE, mag |-> magnitudeOf(text)]

\* x + y over limbs of the same length, with the carry out.
addLimbs(x, y) ==
    LET c[i \in 1..(Len(x) + 1)] ==
            IF i = Len(x) + 1 THEN 0 ELSE (x[i] + y[i] + c[i + 1]) \div Base
    IN  [sum |-> [i \in DOMAIN x |-> (x[i] + y[i] + c[i + 1]) % Base], carry |-> c[1]]

lowLimbs(x, w) == SubSeq(x, Len(x) - w + 1, Len(x))
highLimbs(x, w) == SubSeq(x, 1, Len(x) - w)

\* v = n when n < 2^(16w - 1), and v = n - 2^(16w), that is v < 0 and
\* |v| + n = 2^(16w), otherwise.
signedOfSameWidth(v, n) ==
    LET w == Len(n)
    IN  /\ isZero(highLimbs(v.mag, w))
        /\ IF n[1] < HalfBase
           THEN ~v.neg /\ lowLimbs(v.mag, w) = n
           ELSE /\ v.neg
                /\ isZero(addLimbs(lowLimbs(v.mag, w), n).sum)
                /\ addLimbs(lowLimbs(v.mag, w), n).carry = 1

\* -2^(16w - 1) <= v < 2^(16w - 1)
fitsSigned(v, w) ==
    LET low == lowLimbs(v.mag, w)
    IN  /\ isZero(highLimbs(v.mag, w))
        /\ \/ low[1] < HalfBase
           \/ v.neg /\ low[1] = HalfBase /\ isZero(Tail(low))

\* C31: AppendUint32 and AppendUint64 append the decimal text of the signed
\* integer of the same width: n below the sign bit and n - 2^32 (n - 2^64)
\* from it on; the value fits the signed type and two distinct unsigned
\* integers give two distinct texts.
C31_UnsignedAsSigned ==
    op.name \in {"AppendUint32", "AppendUint64"} =>
        /\ \A i \in DOMAIN op.out :
                /\ isNumber(op.out[i])
                /\ signedOfSameWidth(readInt(op.out[i]), op.args[i])
                /\ fitsSigned(readInt(op.out[i]), Len(op.args[i]))
        /\ (Len(op.out) = 2 /\ op.args[1] # op.args[2]) => op.out[1] # op.out[2]

\* C31 witness: 2^32 - 1 was rendered as -1 and 2^31 as -2147483648.
C31_Witness ==
    /\ op.name = "AppendUint32"
    /\ op.args = << <<Base - 1, Base - 1>>, <<HalfBase, 0>> >>
    /\ op.out = << <<"-", "1">>,
                   <<"-", "2", "1", "4", "7", "4", "8", "3", "6", "4", "8">> >>

\* C31 witness for 64 bits: 2^64 - 1 was rendered as -1 and 2^63 - 1 as
\* 9223372036854775807.
C31_Witness64 ==
    /\ op.name = "AppendUint64"
    /\ op.args = << <<Base - 1, Base - 1, Base - 1, Base - 1>>,
                    <<HalfBase - 1, Base - 1, Base - 1, Base - 1>> >>
    /\ op.out = << <<"-", "1">>,
                   <<"9", "2", "2", "3", "3", "7", "2", "0", "3", "6",
                     "8", "5", "4", "7", "7", "5", "8", "0", "7">> >>

====
